---- MODULE Spec2Model ----
(***************************************************************************)
(* Tool Execution Gateway: registry lookup, policy engine, and the gateway *)
(* request lifecycle with its two-phase approval protocol, over a          *)
(* transactional audit store (tool_runs, approvals, events).               *)
(*                                                                         *)
(* The audit store is a database that outlives a gateway object           *)
(* (apps/agent/db/engine.py opens whatever DATABASE_URL names), so the    *)
(* committed store is global state and every gateway entry call works on  *)
(* its own ORM session: reads see the committed rows, writes stay in the  *)
(* session until db_session commits them.                                 *)
(***************************************************************************)
EXTENDS Integers, Sequences, FiniteSets, TLC

\* ------------------------------------------------------------------ bounds

\* gateway entry calls started in one behaviour
MaxOps == 2

\* ---------------------------------------------------------- JSON-ish values

\* Python None / a key that is absent from a mapping
Absent == "absent"
\* id columns are uuid strings; 0 stands for "no id in this payload"
NoId == 0
\* the empty mapping {}
Empty == [kind |-> "empty"]

IntV(n) == [t |-> "int", v |-> n]
StrV(s) == [t |-> "str", s |-> s]
AbsentV == [t |-> "absent"]
NoneV == [t |-> "none"]

\* int(x) of the strings the model uses; a string outside the table raises
StrToInt == ("80" :> 80) @@ ("30" :> 30)

IntCoercible(v) == v.t = "int" \/ (v.t = "str" /\ v.s \in DOMAIN StrToInt)

int(v) == IF v.t = "int" THEN v.v ELSE StrToInt[v.s]

\* an input mapping, by the keys the policy rules read
Input(room, volume, repo, draft) ==
    [room |-> room, volume |-> volume, repo |-> repo, draft |-> draft]

\* ------------------------------------------------------------ policy config

Unset == [unset |-> TRUE]

SonosPolicy == [allowed_rooms |-> {"Kitchen"}, max_volume |-> 40, quiet_hours_enabled |-> FALSE]

GitHubPolicy == [allowed_repos |-> {"org/app"}, draft_only |-> TRUE,
                 allow_merge |-> FALSE, allow_push_to_main |-> FALSE]

\* pr_rules.draft_only: false in policy.yaml
GitHubPolicyOpen == [allowed_repos |-> {"org/app"}, draft_only |-> FALSE,
                     allow_merge |-> FALSE, allow_push_to_main |-> FALSE]

\* every configuration load_policy_config can produce, by what the rules read
AnyPolicyConfig ==
    { [github |-> g, sonos |-> s] :
        g \in {Unset, GitHubPolicy, GitHubPolicyOpen}, s \in {Unset, SonosPolicy} }

\* the configurations a gateway is constructed with
PolicyConfig == { [github |-> g, sonos |-> s] : g \in {GitHubPolicy}, s \in {Unset, SonosPolicy} }

\* ------------------------------------------------------------------ registry

\* tool names are dotted identifiers, kept as their segments; output_schema
\* says whether the manifest declares schemas.output (output_schema_path)
ToolSpec(name, mode, output_schema) ==
    [name |-> name, mode |-> mode, output_schema |-> output_schema]

Calendar == <<"calendar", "google", "get_agenda">>
SonosPlay == <<"sonos", "play">>
GithubPr == <<"github", "pr", "create">>
DoorUnlock == <<"door", "unlock">>
UnknownTool == <<"nope">>

\* ToolRegistry._tools after discover(): name -> spec
ToolRegistry ==
    (Calendar :> ToolSpec(Calendar, "read_only", TRUE)) @@
    (SonosPlay :> ToolSpec(SonosPlay, "execute_gated", TRUE)) @@
    (GithubPr :> ToolSpec(GithubPr, "draft", FALSE)) @@
    (DoorUnlock :> ToolSpec(DoorUnlock, "execute_gated", FALSE))

\* ToolRegistry.get raises for a name that is not registered
registry_get_raises(name) == name \notin DOMAIN ToolRegistry

registry_get(name) == ToolRegistry[name]

\* str.startswith on the dotted name: "sonos." and "github.pr."
startswith_sonos(name) == Len(name) >= 2 /\ name[1] = "sonos"

startswith_github_pr(name) == Len(name) >= 3 /\ name[1] = "github" /\ name[2] = "pr"

\* -------------------------------------------------------------- policy engine

PolicyDecision(decision, sanitized_input, reason, details) ==
    [decision |-> decision, sanitized_input |-> sanitized_input,
     reason |-> reason, details |-> details]

\* the github rule without the draft-only enforcement
_eval_github_pr_unforced(cfg, tool_spec, input_json) ==
    LET gh == cfg.github
        repo == input_json.repo
    IN  IF gh = Unset
        THEN PolicyDecision("deny", input_json, "GitHub policy not configured", Empty)
        ELSE IF repo \notin gh.allowed_repos
        THEN PolicyDecision("deny", input_json, "Repo not allowlisted",
                            [kind |-> "repo", repo |-> repo, allowed_repos |-> gh.allowed_repos])
        ELSE PolicyDecision("allow", input_json, Absent, Empty)

_eval_github_pr(cfg, tool_spec, input_json) ==
    LET gh == cfg.github
        repo == input_json.repo
    IN  IF gh = Unset
        THEN PolicyDecision("deny", input_json, "GitHub policy not configured", Empty)
        ELSE IF repo \notin gh.allowed_repos
        THEN PolicyDecision("deny", input_json, "Repo not allowlisted",
                            [kind |-> "repo", repo |-> repo, allowed_repos |-> gh.allowed_repos])
        ELSE IF gh.draft_only /\ input_json.draft # "true"
        THEN PolicyDecision("allow", [input_json EXCEPT !.draft = "true"],
                            "Enforced draft-only PR creation", [kind |-> "repo1", repo |-> repo])
        ELSE PolicyDecision("allow", input_json, Absent, Empty)

\* the sonos rule with the room allowlist checked after the volume cap
_eval_sonos_cap_first(cfg, tool_spec, input_json) ==
    LET s == cfg.sonos
        room == input_json.room
        vol == input_json.volume
    IN  IF s = Unset
        THEN PolicyDecision("deny", input_json, "Sonos policy not configured", Empty)
        ELSE IF vol.t \notin {"absent", "none"} /\ ~IntCoercible(vol)
        THEN PolicyDecision("deny", input_json, "Invalid volume type",
                            [kind |-> "volume", volume |-> vol])
        ELSE IF vol.t \notin {"absent", "none"} /\ int(vol) > s.max_volume
        THEN PolicyDecision("require_approval",
                            [input_json EXCEPT !.volume = IntV(s.max_volume)],
                            "Requested volume exceeds cap; capped and requires approval",
                            [kind |-> "cap", requested |-> int(vol), capped_to |-> s.max_volume])
        ELSE IF room # Absent /\ room \notin s.allowed_rooms
        THEN PolicyDecision("deny", input_json, "Room not allowlisted",
                            [kind |-> "room", room |-> room, allowed_rooms |-> s.allowed_rooms])
        ELSE PolicyDecision("require_approval", input_json, "Sonos actions require approval", Empty)

\* the sonos rule lowering an excessive volume by one step instead of capping it
_eval_sonos_steps_down(cfg, tool_spec, input_json) ==
    LET s == cfg.sonos
        room == input_json.room
        vol == input_json.volume
    IN  IF s = Unset
        THEN PolicyDecision("deny", input_json, "Sonos policy not configured", Empty)
        ELSE IF room # Absent /\ room \notin s.allowed_rooms
        THEN PolicyDecision("deny", input_json, "Room not allowlisted",
                            [kind |-> "room", room |-> room, allowed_rooms |-> s.allowed_rooms])
        ELSE IF vol.t \notin {"absent", "none"} /\ ~IntCoercible(vol)
        THEN PolicyDecision("deny", input_json, "Invalid volume type",
                            [kind |-> "volume", volume |-> vol])
        ELSE IF vol.t \notin {"absent", "none"} /\ int(vol) > s.max_volume
        THEN PolicyDecision("require_approval",
                            [input_json EXCEPT !.volume = IntV(int(vol) - 1)],
                            "Requested volume exceeds cap; capped and requires approval",
                            [kind |-> "cap", requested |-> int(vol), capped_to |-> s.max_volume])
        ELSE PolicyDecision("require_approval", input_json, "Sonos actions require approval", Empty)

_eval_sonos(cfg, tool_spec, input_json) ==
    LET s == cfg.sonos
        sanitized == input_json
        room == sanitized.room
        vol == sanitized.volume
    IN  IF s = Unset
        THEN PolicyDecision("deny", input_json, "Sonos policy not configured", Empty)
        ELSE IF room # Absent /\ room \notin s.allowed_rooms
        THEN PolicyDecision("deny", sanitized, "Room not allowlisted",
                            [kind |-> "room", room |-> room, allowed_rooms |-> s.allowed_rooms])
        ELSE IF vol.t \notin {"absent", "none"} /\ ~IntCoercible(vol)
        THEN PolicyDecision("deny", sanitized, "Invalid volume type",
                            [kind |-> "volume", volume |-> vol])
        ELSE IF vol.t \notin {"absent", "none"} /\ int(vol) > s.max_volume
        THEN PolicyDecision("require_approval",
                            [sanitized EXCEPT !.volume = IntV(s.max_volume)],
                            "Requested volume exceeds cap; capped and requires approval",
                            [kind |-> "cap", requested |-> int(vol), capped_to |-> s.max_volume])
        ELSE PolicyDecision("require_approval", sanitized, "Sonos actions require approval", Empty)

\* evaluate with the execute_gated default falling through to the draft default
evaluate_gated_falls_through(cfg, tool_spec, input_json) ==
    IF tool_spec.mode = "execute_gated" /\ ~startswith_sonos(tool_spec.name)
    THEN PolicyDecision("allow", input_json, Absent, Empty)
    ELSE IF tool_spec.mode = "execute_gated"
    THEN _eval_sonos(cfg, tool_spec, input_json)
    ELSE PolicyDecision("allow", input_json, Absent, Empty)

\* evaluate with any mode that is not draft or execute_gated allowed
evaluate_unknown_mode_allowed(cfg, tool_spec, input_json) ==
    IF tool_spec.mode = "draft" /\ startswith_github_pr(tool_spec.name)
    THEN _eval_github_pr(cfg, tool_spec, input_json)
    ELSE IF tool_spec.mode = "execute_gated" /\ startswith_sonos(tool_spec.name)
    THEN _eval_sonos(cfg, tool_spec, input_json)
    ELSE IF tool_spec.mode = "execute_gated"
    THEN PolicyDecision("require_approval", input_json,
                        "execute_gated tool requires approval", Empty)
    ELSE PolicyDecision("allow", input_json, Absent, Empty)

\* f"Unknown tool mode '{mode}'" of the mode values the model uses
UnknownModeReason ==
    ("admin" :> "Unknown tool mode 'admin'") @@
    ("READ_ONLY" :> "Unknown tool mode 'READ_ONLY'")

evaluate(cfg, tool_spec, input_json) ==
    LET name == tool_spec.name
        mode == tool_spec.mode
    IN  IF mode = "read_only"
        THEN PolicyDecision("allow", input_json, Absent, Empty)
        ELSE IF mode = "draft"
        THEN IF startswith_github_pr(name)
             THEN _eval_github_pr(cfg, tool_spec, input_json)
             ELSE PolicyDecision("allow", input_json, Absent, Empty)
        ELSE IF mode = "execute_gated"
        THEN IF startswith_sonos(name)
             THEN _eval_sonos(cfg, tool_spec, input_json)
             ELSE PolicyDecision("require_approval", input_json,
                                 "execute_gated tool requires approval", Empty)
        ELSE PolicyDecision("deny", input_json, UnknownModeReason[mode],
                            [kind |-> "mode", tool |-> name, mode |-> mode])

\* ---------------------------------------------------------------- audit store

ToolRun(tool_run_id, request_id, tool_name, status, input_json) ==
    [tool_run_id |-> tool_run_id, request_id |-> request_id, tool_name |-> tool_name,
     status |-> status, input_json |-> input_json,
     output_json |-> Empty, error_json |-> Empty, latency_ms |-> 0]

NoTs == [set |-> FALSE]
Ts(at) == [set |-> TRUE, at |-> at]

Approval(approval_id, tool_run_id, context) ==
    [approval_id |-> approval_id, tool_run_id |-> tool_run_id, status |-> "pending",
     ts_resolved |-> NoTs, approval_context_json |-> context]

Event(event_type, tool_name, request_id, approval_id, extra) ==
    [event_type |-> event_type, tool_name |-> tool_name, request_id |-> request_id,
     approval_id |-> approval_id, extra |-> extra]

\* an ORM session: the rows it loaded (as loaded, and as changed since), the
\* rows it added, in the order the unit of work flushes them
NoRow == [none |-> TRUE]
NewSession == [tr |-> NoRow, ap |-> NoRow, new_tr |-> NoRow, new_ap |-> NoRow, events |-> <<>>]

\* UPDATE ... SET <the attributes whose value changed since the load> WHERE pk
\* = id, applied to the committed row
Update(committed, loaded, cur) ==
    [f \in DOMAIN committed |-> IF cur[f] # loaded[f] THEN cur[f] ELSE committed[f]]

log_event(s, ev) == [s EXCEPT !.events = Append(@, ev)]

\* Session.get: the identity map's row when the session already holds it,
\* else a SELECT of the committed row
get_approval(db, approval_id) ==
    IF approval_id \in DOMAIN db.approvals THEN db.approvals[approval_id] ELSE NoRow

get_tool_run(db, tool_run_id) ==
    IF tool_run_id \in DOMAIN db.tool_runs THEN db.tool_runs[tool_run_id] ELSE NoRow

\* a load that marks the approval approved before any gate has looked at it
load_approval_approving(s, db, approval_id) ==
    IF s.ap # NoRow \/ get_approval(db, approval_id) = NoRow THEN s
    ELSE [s EXCEPT !.ap = [loaded |-> get_approval(db, approval_id),
                           cur |-> [get_approval(db, approval_id)
                                       EXCEPT !.status = "approved"]]]

load_approval(s, db, approval_id) ==
    IF s.ap # NoRow \/ get_approval(db, approval_id) = NoRow THEN s
    ELSE [s EXCEPT !.ap = [loaded |-> get_approval(db, approval_id),
                           cur |-> get_approval(db, approval_id)]]

load_tool_run(s, db, tool_run_id) ==
    IF s.tr # NoRow THEN s
    ELSE IF s.new_tr = NoRow /\ get_tool_run(db, tool_run_id) = NoRow THEN s
    ELSE IF s.new_tr # NoRow /\ s.new_tr.tool_run_id = tool_run_id
    THEN [s EXCEPT !.tr = [loaded |-> s.new_tr, cur |-> s.new_tr]]
    ELSE [s EXCEPT !.tr = [loaded |-> get_tool_run(db, tool_run_id),
                           cur |-> get_tool_run(db, tool_run_id)]]

\* a resolution that inserts a second, resolved Approval for the same ToolRun
\* and leaves the loaded one as it is
resolve_approval_as_new_row(s, status, now) ==
    [s EXCEPT !.new_ap = [s.ap.cur EXCEPT !.approval_id = @ + 1, !.status = status,
                                          !.ts_resolved = Ts(now)]]

resolve_approval(s, status, now) ==
    [s EXCEPT !.ap.cur.status = status, !.ap.cur.ts_resolved = Ts(now)]

finalize_tool_run(s, status, output_json, error_json, latency_ms) ==
    [s EXCEPT !.tr.cur.status = status, !.tr.cur.output_json = output_json,
              !.tr.cur.error_json = error_json, !.tr.cur.latency_ms = latency_ms]

create_tool_run(s, row) == [s EXCEPT !.new_tr = row]

create_approval(s, row) == [s EXCEPT !.new_ap = row]

\* a commit that flushes the rows but loses the session's pending events
commit_events_lost(db, s) ==
    LET trs1 == IF s.new_tr = NoRow THEN db.tool_runs
                ELSE db.tool_runs @@ (s.new_tr.tool_run_id :> s.new_tr)
        trs2 == IF s.tr = NoRow THEN trs1
                ELSE [trs1 EXCEPT ![s.tr.cur.tool_run_id] = Update(@, s.tr.loaded, s.tr.cur)]
        aps1 == IF s.new_ap = NoRow THEN db.approvals
                ELSE db.approvals @@ (s.new_ap.approval_id :> s.new_ap)
        aps2 == IF s.ap = NoRow THEN aps1
                ELSE [aps1 EXCEPT ![s.ap.cur.approval_id] = Update(@, s.ap.loaded, s.ap.cur)]
    IN  [tool_runs |-> trs2, approvals |-> aps2, events |-> db.events]

\* session.commit(): flush the unit of work (INSERTs, then UPDATEs of dirty
\* rows) and make it durable in one transaction
commit(db, s) ==
    LET trs1 == IF s.new_tr = NoRow THEN db.tool_runs
                ELSE db.tool_runs @@ (s.new_tr.tool_run_id :> s.new_tr)
        trs2 == IF s.tr = NoRow THEN trs1
                ELSE [trs1 EXCEPT ![s.tr.cur.tool_run_id] = Update(@, s.tr.loaded, s.tr.cur)]
        aps1 == IF s.new_ap = NoRow THEN db.approvals
                ELSE db.approvals @@ (s.new_ap.approval_id :> s.new_ap)
        aps2 == IF s.ap = NoRow THEN aps1
                ELSE [aps1 EXCEPT ![s.ap.cur.approval_id] = Update(@, s.ap.loaded, s.ap.cur)]
    IN  [tool_runs |-> trs2, approvals |-> aps2, events |-> db.events \o s.events]

\* session.rollback(), and a session that is dropped without a commit
rollback(db, s) == db

\* a block exit that never commits
db_session_exit_rolls_back(db, s, raised) == rollback(db, s)

\* a block exit that commits whatever the session holds, exception or not
db_session_exit_always_commits(db, s, raised) == commit(db, s)

\* db_session.__exit__: commit on the return path, rollback when an exception
\* leaves the block
db_session_exit(db, s, raised) == IF raised THEN rollback(db, s) ELSE commit(db, s)

\* ------------------------------------------------------------ result envelope

ToolVersion == "v0.1"

ToolResult(status, tool_name, request_id, data, error, meta) ==
    [status |-> status, tool_name |-> tool_name, tool_version |-> ToolVersion,
     request_id |-> request_id, data |-> data, error |-> error, meta |-> meta]

NoError == [none |-> TRUE]

\* an error envelope that leaves the error field out
_err_no_error(tool_name, request_id, code, message, details, latency_ms, status) ==
    ToolResult(status, tool_name, request_id, Empty, NoError,
               [latency_ms |-> latency_ms, source |-> "gateway"])

_err(tool_name, request_id, code, message, details, latency_ms, status) ==
    ToolResult(status, tool_name, request_id, Empty,
               [code |-> code, message |-> message, details |-> details],
               [latency_ms |-> latency_ms, source |-> "gateway"])

\* an exception that leaves the entry call instead of an envelope
Raised(request_id) == [status |-> "raised", request_id |-> request_id]

\* res.error or {}
error_or_empty(res) == IF res.error = NoError THEN Empty ELSE res.error

\* ------------------------------------------------------------------- gateway

VARIABLES
    config,       \* PolicyEngine.config of the gateway
    store,        \* the committed audit store: tool_runs, approvals, events
    pc,           \* where each caller's entry call stands
    call,         \* the locals of each caller's entry call
    sess,         \* each caller's ORM session
    nops,         \* entry calls started so far (request_id = uuid4 is the serial)
    returned,     \* the envelope the last step returned to its caller, if any
    handler_log,  \* every tool.fn invocation made so far
    pol,          \* a direct caller of PolicyEngine.evaluate and its mappings
    reg,          \* a ToolRegistry under discovery and its tools directory
    dl            \* a caller's timeout_ms argument through one call's deadline test

vars == <<config, store, pc, call, sess, nops, returned, handler_log, pol, reg, dl>>

Procs == {"p1", "p2"}

AllIdle == \A q \in Procs : pc[q] = "idle"

\* Callers are interchangeable: an idle caller holds nothing (its call record
\* and session are the empty ones), so when no call is in flight the caller
\* that starts the next one is named p1.
Starts(p) == pc[p] = "idle" /\ nops < MaxOps /\ (AllIdle => p = "p1")

ToolNames == DOMAIN ToolRegistry \cup {UnknownTool}

\* the input mappings callers pass: the policy reads room and volume for
\* sonos.* tools and repo and draft for github.pr.* tools, and nothing else
SonosInputs == { Input("Kitchen", IntV(30), Absent, Absent),
                 Input("Kitchen", IntV(80), Absent, Absent),
                 Input("Garage", IntV(20), Absent, Absent) }

GithubInputs == { Input(Absent, AbsentV, "org/app", "false"),
                  Input(Absent, AbsentV, "evil/repo", "false") }

PlainInputs == { Input(Absent, AbsentV, Absent, Absent) }

InputsFor(tool_name) ==
    IF startswith_sonos(tool_name) THEN SonosInputs
    ELSE IF startswith_github_pr(tool_name) THEN GithubInputs
    ELSE PlainInputs

\* timeout_ms as the caller passes it: None, or an integer
TimeoutArgs == {NoneV}

default_timeout_ms == 10000

\* readings of _ms_since(t0)
ElapsedMs == {3, 20000}

\* _ms_since(t0) before the handler ran: the handler is the only unbounded
\* point of a call, so the early readings are the smallest one
early_ms == CHOOSE m \in ElapsedMs : \A n \in ElapsedMs : m <= n

\* what loading and applying the input schema does: the document is read from
\* disk on every call
SchemaOutcomes == {"valid", "invalid", "load_error"}

\* what reading the output schema document does
LoadOutcomes == {"ok", "load_error"}

GoodOut == [kind |-> "output", valid |-> TRUE]
BadOut == [kind |-> "output", valid |-> FALSE]

\* what tool.fn does: return a mapping, raise ToolError, raise anything else
HandlerOutcomes == { [kind |-> "return", out |-> GoodOut],
                     [kind |-> "return", out |-> BadOut],
                     [kind |-> "ToolError", code |-> "UPSTREAM_ERROR"],
                     [kind |-> "Exception"] }

NoReturn == [op |-> "none"]
Idle == [op |-> "none"]

\* a deadline that takes every integer the caller passes, 0 included
effective_timeout_keeps_zero(timeout_arg) ==
    IF timeout_arg.t = "none" THEN default_timeout_ms ELSE timeout_arg.v

\* timeout_ms or self.default_timeout_ms
effective_timeout(timeout_arg) ==
    IF timeout_arg.t = "none" \/ timeout_arg.v = 0 THEN default_timeout_ms ELSE timeout_arg.v

fresh_tool_run_id(db) == Cardinality(DOMAIN db.tool_runs) + 1

\* decision.reason or "<default>"
reason_or(reason, default) == IF reason = Absent THEN default ELSE reason

\* approval_payload and the approval_required envelope's data
approval_payload(tool_name, mode, decision) ==
    [tool_name |-> tool_name, mode |-> mode,
     reason |-> reason_or(decision.reason, "Approval required"),
     proposed_input |-> decision.sanitized_input]

\* data = {"approval_request": ..., "approval_id": <what create_approval returned>}:
\* create_approval returns the Approval object, not its id
approval_data(payload, approval_id) ==
    [kind |-> "approval", approval_request |-> payload,
     approval_id |-> [obj |-> "Approval", approval_id |-> approval_id]]

\* The store is a database file that outlives the gateway (cli.py builds a new
\* gateway per command). Its prior content is either nothing or the rows of one
\* request awaiting approval, as create_tool_run, create_approval,
\* finalize_tool_run and log_event leave them when a db_session block commits
\* them: the values are those of run_tool's approval branch (gateway.py 70-89
\* and 157-205) under a configured policy.
PriorRequestId == 100

\* policy.yaml as it was when the stored approval was requested: the file is
\* read at every start, and the cap has been lowered since
EarlierSonosPolicy == [allowed_rooms |-> {"Kitchen"}, max_volume |-> 90,
                       quiet_hours_enabled |-> FALSE]

PriorStoreOf(tool_spec, input_json) ==
    LET cfg == [github |-> GitHubPolicy, sonos |-> EarlierSonosPolicy]
        tool_name == tool_spec.name
        payload == approval_payload(tool_name, tool_spec.mode, evaluate(cfg, tool_spec, input_json))
    IN  [tool_runs |-> (1 :> [ToolRun(1, PriorRequestId, tool_name, "approval_required", input_json)
                              EXCEPT !.output_json = approval_data(payload, 1)]),
         approvals |-> (1 :> Approval(1, 1, payload)),
         events |-> << Event("tool_called", tool_name, PriorRequestId, NoId, Empty),
                       Event("approval_requested", tool_name, PriorRequestId, 1, Empty) >>]

PriorStore(tool_name, input_json) == PriorStoreOf(registry_get(tool_name), input_json)

\* a tool that was registered when its approval was requested and whose
\* manifest is gone from the tools directory that discover() scans now
RetiredTool == ToolSpec(<<"garage", "open">>, "execute_gated", FALSE)

EmptyStore == [tool_runs |-> <<>>, approvals |-> <<>>, events |-> <<>>]

InitialStores == { EmptyStore,
                   PriorStore(SonosPlay, Input("Kitchen", IntV(80), Absent, Absent)),
                   PriorStoreOf(RetiredTool, Input(Absent, AbsentV, Absent, Absent)) }

\* the gateway's registry is discovered before the gateway is built and is
\* not discovered again (ToolRegistry above)
Discovered == [phase |-> "discovered"]

\* nobody calls the policy engine but the gateway
NoPolicyCaller == [phase |-> "none"]

\* no call is singled out for its deadline
NoDeadlineCaller == [phase |-> "none"]

Init ==
    /\ config \in PolicyConfig
    /\ store \in InitialStores
    /\ pc = [p \in Procs |-> "idle"]
    /\ call = [p \in Procs |-> Idle]
    /\ sess = [p \in Procs |-> NewSession]
    /\ nops = 0
    /\ returned = NoReturn
    /\ handler_log = {}
    /\ pol = NoPolicyCaller
    /\ reg = Discovered
    /\ dl = NoDeadlineCaller

HandlerCall(op, request_id, tool_name, approval_id, input_json) ==
    [op |-> op, request_id |-> request_id, tool_name |-> tool_name,
     approval_id |-> approval_id, input_json |-> input_json]

\* an error exit that logs its event and leaves the ToolRun row as it was
fail_tool_run_event_only(s, db, tool_run_id, res, event_type, approval_id) ==
    log_event(
        load_tool_run(s, db, tool_run_id),
        Event(event_type, res.tool_name, IF approval_id = NoId THEN res.request_id ELSE NoId,
              approval_id, error_or_empty(res)))

\* finalize_tool_run + log_event, as every error exit of run_tool pairs them
fail_tool_run(s, db, tool_run_id, res, event_type, approval_id) ==
    log_event(
        finalize_tool_run(load_tool_run(s, db, tool_run_id), res.status, res.data,
                          error_or_empty(res), res.meta.latency_ms),
        Event(event_type, res.tool_name, IF approval_id = NoId THEN res.request_id ELSE NoId,
              approval_id, error_or_empty(res)))

\* an entry call ends: its envelope (or its exception) goes to the caller.
\* input_schema is what the call's input validation did ("unchecked" when the
\* call ended before it), ctx the locals of a call that reached the handler
Return(p, op, res, tool_run_id, approval_id, input_schema) ==
    /\ pc' = [pc EXCEPT ![p] = "idle"]
    /\ call' = [call EXCEPT ![p] = Idle]
    /\ sess' = [sess EXCEPT ![p] = NewSession]
    /\ returned' = [op |-> op, caller |-> p, res |-> res,
                    tool_run_id |-> tool_run_id, approval_id |-> approval_id,
                    input_schema |-> input_schema, ctx |-> call[p]]

\* an input validation that lets every input through
input_never_rejected(schema) == FALSE

\* run_tool's input validation (lines 107-138): both except clauses return an
\* error envelope, so only an input that validates goes on to policy
input_rejected(schema) == schema # "valid"

\* ------------------------------------------------------------------ run_tool

\* the handler called with the input as the call received it
handler_input_raw(decision, raw_input) == raw_input

\* tool.fn(decision.sanitized_input, context)
handler_input(decision, raw_input) == decision.sanitized_input

\* run_tool up to the handler invocation. The with db_session() block ends
\* after the tool lookup (line 105): tool_called and ToolRun(started) commit
\* there, and for an unknown tool so do the finalization and tool_failed.
\* Everything after it works on the closed session, which begins a new
\* transaction that nothing commits: the session is dropped on return.
run_tool_begin(p) ==
    /\ Starts(p)
    /\ \E tool_name \in ToolNames, timeout_arg \in TimeoutArgs,
          validate_output \in BOOLEAN, schema \in SchemaOutcomes :
      \E input_json \in InputsFor(tool_name) :
        LET request_id == nops + 1
            ms == early_ms
            timeout_ms == effective_timeout(timeout_arg)
            tool_run_id == fresh_tool_run_id(store)
            s0 == create_tool_run(
                      log_event(NewSession, Event("tool_called", tool_name, request_id, NoId, Empty)),
                      ToolRun(tool_run_id, request_id, tool_name, "started", input_json))
        IN  /\ nops' = nops + 1
            /\ config' = config
            /\ pol' = pol
            /\ reg' = reg
            /\ dl' = dl
            /\ IF registry_get_raises(tool_name)
               THEN LET res == _err(tool_name, request_id, "NOT_FOUND", "Unknown tool",
                                    [kind |-> "error"], ms, "error")
                        s1 == fail_tool_run(s0, store, tool_run_id, res, "tool_failed", NoId)
                    IN  /\ store' = db_session_exit(store, s1, FALSE)
                        /\ handler_log' = handler_log
                        /\ Return(p, "run_tool", res, tool_run_id, NoId, "unchecked")
               ELSE
               LET db1 == db_session_exit(store, s0, FALSE)
                   tool == registry_get(tool_name)
                   decision == evaluate(config, tool, input_json)
               IN  IF input_rejected(schema) /\ schema = "invalid"
                   THEN LET res == _err(tool_name, request_id, "VALIDATION_ERROR",
                                        "Input validation failed", [kind |-> "schema"], ms, "error")
                            s1 == fail_tool_run(NewSession, db1, tool_run_id, res, "tool_failed", NoId)
                        IN  /\ store' = rollback(db1, s1)
                            /\ handler_log' = handler_log
                            /\ Return(p, "run_tool", res, tool_run_id, NoId, schema)
                   ELSE IF input_rejected(schema)
                   THEN LET res == _err(tool_name, request_id, "INTERNAL_ERROR",
                                        "Failed to load/validate input schema",
                                        [kind |-> "error"], ms, "error")
                            s1 == fail_tool_run(NewSession, db1, tool_run_id, res, "tool_failed", NoId)
                        IN  /\ store' = rollback(db1, s1)
                            /\ handler_log' = handler_log
                            /\ Return(p, "run_tool", res, tool_run_id, NoId, schema)
                   ELSE IF decision.decision = "deny"
                   THEN LET res == _err(tool_name, request_id, "POLICY_VIOLATION",
                                        reason_or(decision.reason, "Policy denied tool execution"),
                                        decision.details, ms, "error")
                            s1 == fail_tool_run(NewSession, db1, tool_run_id, res,
                                                "policy_violation", NoId)
                        IN  /\ store' = rollback(db1, s1)
                            /\ handler_log' = handler_log
                            /\ Return(p, "run_tool", res, tool_run_id, NoId, schema)
                   ELSE IF decision.decision = "require_approval"
                   THEN LET payload == approval_payload(tool_name, tool.mode, decision)
                            approval_id == tool_run_id
                            res == ToolResult("approval_required", tool_name, request_id,
                                              approval_data(payload, approval_id), NoError,
                                              [latency_ms |-> ms, timeout_ms |-> timeout_ms,
                                               source |-> "gateway"])
                            s1 == create_approval(NewSession,
                                                  Approval(approval_id, tool_run_id, payload))
                            s2 == finalize_tool_run(load_tool_run(s1, db1, tool_run_id),
                                                    "approval_required", res.data, Empty, ms)
                            s3 == log_event(s2, Event("approval_requested", tool_name,
                                                      request_id, approval_id, Empty))
                        IN  /\ store' = rollback(db1, s3)
                            /\ handler_log' = handler_log
                            /\ Return(p, "run_tool", res, tool_run_id, approval_id, schema)
                   ELSE /\ store' = db1
                        /\ pc' = [pc EXCEPT ![p] = "rt_exec"]
                        /\ call' = [call EXCEPT ![p] =
                                      [op |-> "run_tool", request_id |-> request_id,
                                       tool_name |-> tool_name, tool_run_id |-> tool_run_id,
                                       approval_id |-> NoId,
                                       sanitized_input |-> handler_input(decision, input_json),
                                       timeout_ms |-> timeout_ms,
                                       validate_output |-> validate_output]]
                        /\ sess' = [sess EXCEPT ![p] = NewSession]
                        /\ returned' = NoReturn
                        /\ handler_log' = handler_log \cup
                              {HandlerCall("run_tool", request_id, tool_name, NoId,
                                           handler_input(decision, input_json))}

\* run_tool's outcome with the output validation left out
run_tool_outcome_unvalidated(c, outcome, elapsed_ms, load) ==
    IF outcome.kind = "ToolError"
    THEN [res |-> _err(c.tool_name, c.request_id, outcome.code, "tool error",
                       [kind |-> "tool"], elapsed_ms, "error"),
          event |-> "tool_failed"]
    ELSE IF outcome.kind = "Exception"
    THEN [res |-> _err(c.tool_name, c.request_id, "INTERNAL_ERROR", "Tool execution failed",
                       [kind |-> "error"], elapsed_ms, "error"),
          event |-> "tool_failed"]
    ELSE IF elapsed_ms > c.timeout_ms
    THEN [res |-> _err(c.tool_name, c.request_id, "TIMEOUT", "Tool exceeded timeout",
                       [kind |-> "elapsed", elapsed_ms |-> elapsed_ms], elapsed_ms, "timeout"),
          event |-> "tool_failed"]
    ELSE [res |-> ToolResult("ok", c.tool_name, c.request_id, outcome.out, NoError,
                             [latency_ms |-> elapsed_ms, timeout_ms |-> c.timeout_ms,
                              source |-> "gateway"]),
          event |-> "tool_succeeded"]

\* run_tool's outcome with the deadline looked at before the handler's
\* exception
run_tool_outcome_deadline_first(c, outcome, elapsed_ms, load) ==
    IF elapsed_ms > c.timeout_ms
    THEN [res |-> _err(c.tool_name, c.request_id, "TIMEOUT", "Tool exceeded timeout",
                       [kind |-> "elapsed", elapsed_ms |-> elapsed_ms], elapsed_ms, "timeout"),
          event |-> "tool_failed"]
    ELSE run_tool_outcome_unvalidated(c, outcome, elapsed_ms, load)

\* what run_tool makes of the handler's outcome (lines 208-292): the envelope
\* and the event it logs
run_tool_outcome(c, outcome, elapsed_ms, load) ==
    LET tool == registry_get(c.tool_name)
    IN  IF outcome.kind = "ToolError"
        THEN [res |-> _err(c.tool_name, c.request_id, outcome.code, "tool error",
                           [kind |-> "tool"], elapsed_ms, "error"),
              event |-> "tool_failed"]
        ELSE IF outcome.kind = "Exception"
        THEN [res |-> _err(c.tool_name, c.request_id, "INTERNAL_ERROR", "Tool execution failed",
                           [kind |-> "error"], elapsed_ms, "error"),
              event |-> "tool_failed"]
        ELSE IF elapsed_ms > c.timeout_ms
        THEN [res |-> _err(c.tool_name, c.request_id, "TIMEOUT", "Tool exceeded timeout",
                           [kind |-> "elapsed", elapsed_ms |-> elapsed_ms], elapsed_ms, "timeout"),
              event |-> "tool_failed"]
        ELSE IF c.validate_output /\ tool.output_schema /\ load = "load_error"
        THEN [res |-> _err(c.tool_name, c.request_id, "INTERNAL_ERROR",
                           "Failed to load/validate output schema",
                           [kind |-> "error"], elapsed_ms, "error"),
              event |-> "tool_failed"]
        ELSE IF c.validate_output /\ tool.output_schema /\ ~outcome.out.valid
        THEN [res |-> _err(c.tool_name, c.request_id, "VALIDATION_ERROR",
                           "Output validation failed", [kind |-> "schema"], elapsed_ms, "error"),
              event |-> "tool_failed"]
        ELSE [res |-> ToolResult("ok", c.tool_name, c.request_id, outcome.out, NoError,
                                 [latency_ms |-> elapsed_ms, timeout_ms |-> c.timeout_ms,
                                  source |-> "gateway"]),
              event |-> "tool_succeeded"]

\* the handler of a run_tool call returns or raises; the call finalizes in the
\* uncommitted session and returns
run_tool_finish(p) ==
    /\ pc[p] = "rt_exec"
    /\ \E outcome \in HandlerOutcomes, elapsed_ms \in ElapsedMs, load \in LoadOutcomes :
        LET c == call[p]
            o == run_tool_outcome(c, outcome, elapsed_ms, load)
            s1 == log_event(
                      finalize_tool_run(load_tool_run(sess[p], store, c.tool_run_id),
                                        o.res.status, o.res.data, error_or_empty(o.res), elapsed_ms),
                      Event(o.event, c.tool_name, c.request_id, NoId, error_or_empty(o.res)))
        IN  /\ store' = rollback(store, s1)
            /\ Return(p, "run_tool", o.res, c.tool_run_id, NoId, "valid")
    /\ UNCHANGED <<config, pol, reg, dl, nops, handler_log>>

\* -------------------------------------------------------------- run_approved

\* a re-evaluation that lets every decision through
approved_run_never_denied(decision) == FALSE

\* if decision.decision == "deny" (line 604): the only decision that stops an
\* approved run; require_approval and allow both go on to tool.fn
approved_run_denied(decision) == decision.decision = "deny"

\* the approval ids callers pass: uuids of rows that exist, or of none
ApprovalIdArgs == {1, 2}

\* run_approved (the second definition, lines 501-690, is the one the class
\* ends up with) from the gate to the handler invocation. The whole call runs
\* inside one db_session block: its writes reach the store when the block is
\* left (run_approved_exit).
run_approved_begin(p) ==
    /\ Starts(p)
    /\ \E approval_id \in ApprovalIdArgs, timeout_arg \in TimeoutArgs,
          validate_output \in BOOLEAN, schema \in SchemaOutcomes :
        LET request_id == nops + 1
            now == nops + 1
            ms == early_ms
            timeout_ms == effective_timeout(timeout_arg)
            ap == get_approval(store, approval_id)
            s0 == load_approval(NewSession, store, approval_id)
            gate_err(code, message, details) ==
                _err(<<"approval", "resolve">>, request_id, code, message, details, ms, "error")
        IN  /\ nops' = nops + 1
            /\ config' = config
            /\ pol' = pol
            /\ reg' = reg
            /\ dl' = dl
            /\ IF ap = NoRow
               THEN /\ store' = db_session_exit(store, s0, FALSE)
                    /\ handler_log' = handler_log
                    /\ Return(p, "run_approved",
                              gate_err("NOT_FOUND", "Approval not found",
                                       [kind |-> "gate", approval_id |-> approval_id]),
                              NoId, approval_id, "unchecked")
               ELSE IF ap.status # "pending"
               THEN /\ store' = db_session_exit(store, s0, FALSE)
                    /\ handler_log' = handler_log
                    /\ Return(p, "run_approved",
                              gate_err("POLICY_VIOLATION", "Approval is not pending",
                                       [kind |-> "gate", approval_id |-> approval_id,
                                        status |-> ap.status]),
                              NoId, approval_id, "unchecked")
               ELSE IF get_tool_run(store, ap.tool_run_id) = NoRow
               THEN /\ store' = db_session_exit(store, s0, FALSE)
                    /\ handler_log' = handler_log
                    /\ Return(p, "run_approved",
                              gate_err("NOT_FOUND", "Tool run for approval not found",
                                       [kind |-> "gate", approval_id |-> approval_id,
                                        tool_run_id |-> ap.tool_run_id]),
                              NoId, approval_id, "unchecked")
               ELSE IF ap.approval_context_json.tool_name = Absent
               THEN /\ store' = db_session_exit(store, load_tool_run(s0, store, ap.tool_run_id), FALSE)
                    /\ handler_log' = handler_log
                    /\ Return(p, "run_approved",
                              gate_err("INTERNAL_ERROR",
                                       "Malformed approval context (missing tool_name)",
                                       [kind |-> "gate", approval_id |-> approval_id]),
                              NoId, approval_id, "unchecked")
               ELSE
               LET tool_name == ap.approval_context_json.tool_name
                   proposed_input == ap.approval_context_json.proposed_input
                   s1 == load_tool_run(s0, store, ap.tool_run_id)
                   s2 == log_event(resolve_approval(s1, "approved", now),
                                   Event("approval_granted", tool_name, NoId, approval_id, Empty))
                   c0 == [op |-> "run_approved", request_id |-> request_id,
                          tool_name |-> tool_name, tool_run_id |-> ap.tool_run_id,
                          approval_id |-> approval_id, sanitized_input |-> proposed_input,
                          timeout_ms |-> timeout_ms, validate_output |-> validate_output,
                          res |-> NoReturn, raised |-> FALSE,
                          input_schema |-> IF registry_get_raises(tool_name)
                                           THEN "unchecked" ELSE schema]
                   \* an exit before the handler: the envelope waits for the block's end
                   leave(res, event_type) ==
                       /\ pc' = [pc EXCEPT ![p] = "ra_exit"]
                       /\ call' = [call EXCEPT ![p] = [c0 EXCEPT !.res = res]]
                       /\ sess' = [sess EXCEPT ![p] =
                                     fail_tool_run(s2, store, ap.tool_run_id, res,
                                                   event_type, approval_id)]
                       /\ handler_log' = handler_log
               IN  /\ store' = store
                   /\ returned' = NoReturn
                   /\ IF registry_get_raises(tool_name)
                      THEN leave(_err(tool_name, request_id, "NOT_FOUND", "Unknown tool",
                                      [kind |-> "error"], ms, "error"), "tool_failed")
                      ELSE IF schema = "invalid"
                      THEN leave(_err(tool_name, request_id, "VALIDATION_ERROR",
                                      "Input validation failed (approved run)",
                                      [kind |-> "schema"], ms, "error"), "tool_failed")
                      ELSE IF schema = "load_error"
                      THEN \* only JsonSchemaValidationError is caught (lines 586-600)
                           /\ pc' = [pc EXCEPT ![p] = "ra_exit"]
                           /\ call' = [call EXCEPT ![p] = [c0 EXCEPT !.raised = TRUE]]
                           /\ sess' = [sess EXCEPT ![p] = s2]
                           /\ handler_log' = handler_log
                      ELSE LET decision == evaluate(config, registry_get(tool_name), proposed_input)
                           IN  IF approved_run_denied(decision)
                               THEN leave(_err(tool_name, request_id, "POLICY_VIOLATION",
                                               reason_or(decision.reason,
                                                         "Policy denied approved execution"),
                                               decision.details, ms, "error"),
                                          "policy_violation")
                               ELSE /\ pc' = [pc EXCEPT ![p] = "ra_exec"]
                                    /\ call' = [call EXCEPT ![p] =
                                          [c0 EXCEPT !.sanitized_input =
                                                        handler_input(decision, proposed_input)]]
                                    /\ sess' = [sess EXCEPT ![p] = s2]
                                    /\ handler_log' = handler_log \cup
                                          {HandlerCall("run_approved", request_id, tool_name,
                                                       approval_id,
                                                       handler_input(decision, proposed_input))}

\* run_approved's outcome with the elapsed-time check left out
run_approved_outcome_no_timeout(c, outcome, elapsed_ms, load) ==
    LET tool == registry_get(c.tool_name)
    IN  IF outcome.kind = "ToolError"
        THEN [res |-> _err(c.tool_name, c.request_id, outcome.code, "tool error",
                           [kind |-> "tool"], elapsed_ms, "error"),
              event |-> "tool_failed", raised |-> FALSE]
        ELSE IF outcome.kind = "Exception"
        THEN [res |-> _err(c.tool_name, c.request_id, "INTERNAL_ERROR",
                           "Tool execution failed (approved run)",
                           [kind |-> "error"], elapsed_ms, "error"),
              event |-> "tool_failed", raised |-> FALSE]
        ELSE IF c.validate_output /\ tool.output_schema /\ load = "load_error"
        THEN [res |-> NoReturn, event |-> "none", raised |-> TRUE]
        ELSE IF c.validate_output /\ tool.output_schema /\ ~outcome.out.valid
        THEN [res |-> _err(c.tool_name, c.request_id, "VALIDATION_ERROR",
                           "Output validation failed (approved run)",
                           [kind |-> "schema"], elapsed_ms, "error"),
              event |-> "tool_failed", raised |-> FALSE]
        ELSE [res |-> ToolResult("ok", c.tool_name, c.request_id, outcome.out, NoError,
                                 [latency_ms |-> elapsed_ms, timeout_ms |-> c.timeout_ms,
                                  source |-> "gateway"]),
              event |-> "tool_succeeded", raised |-> FALSE]

\* what run_approved makes of the handler's outcome (lines 617-690); a failure
\* to load the output schema is not caught there and leaves the call
run_approved_outcome(c, outcome, elapsed_ms, load) ==
    LET tool == registry_get(c.tool_name)
    IN  IF outcome.kind = "ToolError"
        THEN [res |-> _err(c.tool_name, c.request_id, outcome.code, "tool error",
                           [kind |-> "tool"], elapsed_ms, "error"),
              event |-> "tool_failed", raised |-> FALSE]
        ELSE IF outcome.kind = "Exception"
        THEN [res |-> _err(c.tool_name, c.request_id, "INTERNAL_ERROR",
                           "Tool execution failed (approved run)",
                           [kind |-> "error"], elapsed_ms, "error"),
              event |-> "tool_failed", raised |-> FALSE]
        ELSE IF elapsed_ms > c.timeout_ms
        THEN [res |-> _err(c.tool_name, c.request_id, "TIMEOUT", "Tool exceeded timeout",
                           [kind |-> "elapsed", elapsed_ms |-> elapsed_ms], elapsed_ms, "timeout"),
              event |-> "tool_failed", raised |-> FALSE]
        ELSE IF c.validate_output /\ tool.output_schema /\ load = "load_error"
        THEN [res |-> NoReturn, event |-> "none", raised |-> TRUE]
        ELSE IF c.validate_output /\ tool.output_schema /\ ~outcome.out.valid
        THEN [res |-> _err(c.tool_name, c.request_id, "VALIDATION_ERROR",
                           "Output validation failed (approved run)",
                           [kind |-> "schema"], elapsed_ms, "error"),
              event |-> "tool_failed", raised |-> FALSE]
        ELSE [res |-> ToolResult("ok", c.tool_name, c.request_id, outcome.out, NoError,
                                 [latency_ms |-> elapsed_ms, timeout_ms |-> c.timeout_ms,
                                  source |-> "gateway"]),
              event |-> "tool_succeeded", raised |-> FALSE]

\* the handler of a run_approved call returns or raises
run_approved_finish(p) ==
    /\ pc[p] = "ra_exec"
    /\ \E outcome \in HandlerOutcomes, elapsed_ms \in ElapsedMs, load \in LoadOutcomes :
        LET c == call[p]
            o == run_approved_outcome(c, outcome, elapsed_ms, load)
        IN  /\ pc' = [pc EXCEPT ![p] = "ra_exit"]
            /\ call' = [call EXCEPT ![p] = [c EXCEPT !.res = o.res, !.raised = o.raised]]
            /\ sess' = [sess EXCEPT ![p] =
                  IF o.raised THEN @
                  ELSE log_event(
                           finalize_tool_run(@, o.res.status, o.res.data,
                                             error_or_empty(o.res), elapsed_ms),
                           Event(o.event, c.tool_name, NoId, c.approval_id,
                                 error_or_empty(o.res)))]
    /\ returned' = NoReturn
    /\ UNCHANGED <<config, pol, reg, dl, store, nops, handler_log>>

\* run_approved leaves its db_session block: commit on return, rollback when
\* an exception leaves it
run_approved_exit(p) ==
    /\ pc[p] = "ra_exit"
    /\ store' = db_session_exit(store, sess[p], call[p].raised)
    /\ Return(p, "run_approved",
              IF call[p].raised THEN Raised(call[p].request_id) ELSE call[p].res,
              call[p].tool_run_id, call[p].approval_id, call[p].input_schema)
    /\ UNCHANGED <<config, pol, reg, dl, nops, handler_log>>

\* ------------------------------------------------------------- deny_approval

deny_approval_begin(p) ==
    /\ Starts(p)
    /\ \E approval_id \in ApprovalIdArgs :
        LET now == nops + 1
            ap == get_approval(store, approval_id)
            s0 == load_approval(NewSession, store, approval_id)
        IN  /\ nops' = nops + 1
            /\ IF ap # NoRow /\ ap.status = "pending"
               THEN /\ pc' = [pc EXCEPT ![p] = "deny_exit"]
                    /\ call' = [call EXCEPT ![p] =
                                  [op |-> "deny_approval", approval_id |-> approval_id]]
                    /\ sess' = [sess EXCEPT ![p] =
                          log_event(resolve_approval(s0, "denied", now),
                                    Event("approval_denied", Absent, NoId, approval_id, Empty))]
                    /\ store' = store
                    /\ returned' = NoReturn
               ELSE /\ store' = db_session_exit(store, s0, FALSE)
                    /\ Return(p, "deny_approval", NoReturn, NoId, approval_id, "unchecked")
    /\ UNCHANGED <<config, pol, reg, dl, handler_log>>

deny_approval_exit(p) ==
    /\ pc[p] = "deny_exit"
    /\ store' = db_session_exit(store, sess[p], FALSE)
    /\ Return(p, "deny_approval", NoReturn, NoId, call[p].approval_id, "unchecked")
    /\ UNCHANGED <<config, pol, reg, dl, nops, handler_log>>

Next ==
    \E p \in Procs :
        \/ run_tool_begin(p)
        \/ run_tool_finish(p)
        \/ run_approved_begin(p)
        \/ run_approved_finish(p)
        \/ run_approved_exit(p)
        \/ deny_approval_begin(p)
        \/ deny_approval_exit(p)

Spec == Init /\ [][Next]_vars

\* non-overlapping use: an entry call starts only when no other is in flight

NextSeq ==
    \E p \in Procs :
        \/ AllIdle /\ run_tool_begin(p)
        \/ run_tool_finish(p)
        \/ AllIdle /\ run_approved_begin(p)
        \/ run_approved_finish(p)
        \/ run_approved_exit(p)
        \/ AllIdle /\ deny_approval_begin(p)
        \/ deny_approval_exit(p)

SpecSeq == Init /\ [][NextSeq]_vars

\* ------------------------------------------------ approvals the gates reject

\* The database file can hold an Approval that run_tool's approval branch did
\* not write as it is: SQLite does not enforce Approval.tool_run_id's foreign
\* key (engine.py sets no PRAGMA foreign_keys), so the ToolRun of an Approval
\* can be gone, and approval_context_json defaults to {} (models.py 84,
\* `context or {}` in create_approval), so a context can lack tool_name.

\* the tool_run_id of a ToolRun that is not in tool_runs
DeletedToolRunId == NoId - 1

\* approval_context_json == {}
EmptyContext == [tool_name |-> Absent, mode |-> Absent, reason |-> Absent,
                 proposed_input |-> Empty]

OrphanApprovalStore ==
    LET prior == PriorStore(SonosPlay, Input("Kitchen", IntV(80), Absent, Absent))
    IN  [tool_runs |-> <<>>,
         approvals |-> (1 :> [prior.approvals[1] EXCEPT !.tool_run_id = DeletedToolRunId]),
         events |-> prior.events]

MalformedApprovalStore ==
    LET prior == PriorStore(SonosPlay, Input("Kitchen", IntV(80), Absent, Absent))
    IN  [prior EXCEPT !.approvals[1].approval_context_json = EmptyContext]

GateStores == {OrphanApprovalStore, MalformedApprovalStore}

InitGate ==
    /\ config \in PolicyConfig
    /\ store \in InitialStores \cup GateStores
    /\ pc = [p \in Procs |-> "idle"]
    /\ call = [p \in Procs |-> Idle]
    /\ sess = [p \in Procs |-> NewSession]
    /\ nops = 0
    /\ returned = NoReturn
    /\ handler_log = {}
    /\ pol = NoPolicyCaller
    /\ reg = Discovered
    /\ dl = NoDeadlineCaller

SpecGate == InitGate /\ [][NextSeq]_vars

\* ------------------------------------------------- audit store write failures

\* The database can refuse a write: the INSERT that create_tool_run flushes,
\* or the COMMIT at the end of a db_session block. SQLAlchemy raises, and
\* db_session rolls back and re-raises (engine.py 38-40).

\* the writes of run_tool's first block that reach the database
InitialWrites == {"flush", "commit"}

\* run_tool whose first block fails at one of its writes (lines 70-105)
run_tool_write_fails(p) ==
    /\ Starts(p)
    /\ \E tool_name \in ToolNames, write \in InitialWrites :
      \E input_json \in InputsFor(tool_name) :
        LET request_id == nops + 1
            tool_run_id == fresh_tool_run_id(store)
            called == log_event(NewSession,
                                Event("tool_called", tool_name, request_id, NoId, Empty))
            s0 == create_tool_run(called,
                      ToolRun(tool_run_id, request_id, tool_name, "started", input_json))
            res == _err(tool_name, request_id, "NOT_FOUND", "Unknown tool",
                        [kind |-> "error"], early_ms, "error")
            \* what the session holds when the write is refused
            s1 == IF write = "flush" THEN called
                  ELSE IF registry_get_raises(tool_name)
                  THEN fail_tool_run(s0, store, tool_run_id, res, "tool_failed", NoId)
                  ELSE s0
        IN  /\ nops' = nops + 1
            /\ store' = db_session_exit(store, s1, TRUE)
            /\ handler_log' = handler_log
            /\ Return(p, "run_tool", Raised(request_id), NoId, NoId, "unchecked")
    /\ UNCHANGED <<config, pol, reg, dl>>

\* run_approved whose COMMIT at the block exit fails (engine.py 37): the
\* envelope was built and `return res` was on its way
run_approved_commit_fails(p) ==
    /\ pc[p] = "ra_exit"
    /\ ~call[p].raised
    /\ store' = db_session_exit(store, sess[p], TRUE)
    /\ Return(p, "run_approved", Raised(call[p].request_id),
              call[p].tool_run_id, call[p].approval_id, call[p].input_schema)
    /\ UNCHANGED <<config, pol, reg, dl, nops, handler_log>>

\* one entry call at a time, over a database that may refuse writes
NextFault ==
    \E p \in Procs :
        \/ AllIdle /\ run_tool_begin(p)
        \/ AllIdle /\ run_tool_write_fails(p)
        \/ run_tool_finish(p)
        \/ AllIdle /\ run_approved_begin(p)
        \/ run_approved_finish(p)
        \/ run_approved_exit(p)
        \/ run_approved_commit_fails(p)
        \/ AllIdle /\ deny_approval_begin(p)
        \/ deny_approval_exit(p)

SpecFault == Init /\ [][NextFault]_vars

\* ------------------------------------------------- the policy engine by itself

\* PolicyEngine.evaluate is a public method: a caller holds a tool spec and an
\* input mapping, evaluates, and may evaluate again on the same mapping or on
\* the sanitized_input it was given back.

PolicyToolNames == {Calendar, SonosPlay, GithubPr, DoorUnlock}

\* ToolSpec.mode is an unchecked string: the three modes and two others
PolicyModes == {"read_only", "draft", "execute_gated", "admin", "READ_ONLY"}

PolicyToolSpecs == { ToolSpec(name, mode, FALSE) : name \in PolicyToolNames, mode \in PolicyModes }

PolicyRooms == {Absent, "Kitchen", "Garage"}

PolicyVolumes == {AbsentV, NoneV, IntV(30), IntV(40), IntV(41), IntV(80),
                  StrV("80"), StrV("30"), StrV("loud")}

PolicyRepos == {Absent, "org/app", "evil/repo"}

PolicyDrafts == {Absent, "true", "false"}

PolicyInputs ==
    { Input(room, volume, repo, draft) :
        room \in PolicyRooms, volume \in PolicyVolumes,
        repo \in PolicyRepos, draft \in PolicyDrafts }

\* The mapping objects of one evaluation: the caller's input_json and the
\* object dict(input_json) creates. A mapping's items are its value; which
\* object a name is bound to decides whose items an assignment changes.
NoMapping == [kind |-> "none"]

Mappings(input_json) == [caller |-> input_json, copy |-> NoMapping]

\* dict(m): a new object holding m's items
dict(heap, ref) == [heap EXCEPT !.copy = heap[ref]]

\* m[key] = value
setitem(heap, ref, key, value) == [heap EXCEPT ![ref][key] = value]

\* the local `sanitized` bound to the caller's own mapping
sanitized_is_input == "caller"

\* sanitized = dict(input_json): the local names the new object
sanitized == "copy"

\* the objects after _eval_github_pr, and the one it returns as sanitized_input
_eval_github_pr_objects(cfg, heap) ==
    LET gh == cfg.github
        input_json == heap.caller
    IN  IF gh = Unset \/ input_json.repo \notin gh.allowed_repos
        THEN [heap |-> heap, sanitized_input |-> "caller"]
        ELSE IF gh.draft_only /\ input_json.draft # "true"
        THEN [heap |-> setitem(dict(heap, "caller"), sanitized, "draft", "true"),
              sanitized_input |-> sanitized]
        ELSE [heap |-> heap, sanitized_input |-> "caller"]

\* the objects after _eval_sonos, and the one it returns as sanitized_input
_eval_sonos_objects(cfg, heap) ==
    LET s == cfg.sonos
        h1 == dict(heap, "caller")
        vol == h1[sanitized].volume
    IN  IF s = Unset
        THEN [heap |-> heap, sanitized_input |-> "caller"]
        ELSE IF /\ ~(h1[sanitized].room # Absent /\ h1[sanitized].room \notin s.allowed_rooms)
                /\ vol.t \notin {"absent", "none"}
                /\ IntCoercible(vol)
                /\ int(vol) > s.max_volume
        THEN [heap |-> setitem(h1, sanitized, "volume", IntV(s.max_volume)),
              sanitized_input |-> sanitized]
        ELSE [heap |-> h1, sanitized_input |-> sanitized]

\* the objects after evaluate
evaluate_objects(cfg, tool_spec, heap) ==
    IF tool_spec.mode = "draft" /\ startswith_github_pr(tool_spec.name)
    THEN _eval_github_pr_objects(cfg, heap)
    ELSE IF tool_spec.mode = "execute_gated" /\ startswith_sonos(tool_spec.name)
    THEN _eval_sonos_objects(cfg, heap)
    ELSE [heap |-> heap, sanitized_input |-> "caller"]

NoDecision == [decision |-> "none"]

PolicyCaller(tool_spec, input_json) ==
    [phase |-> "start", tool_spec |-> tool_spec, input_json |-> input_json,
     heap |-> Mappings(input_json), sanitized_input |-> "caller",
     first |-> NoDecision, again |-> NoDecision, resanitized |-> NoDecision]

InitPolicy ==
    /\ config \in AnyPolicyConfig
    /\ store = EmptyStore
    /\ pc = [p \in Procs |-> "idle"]
    /\ call = [p \in Procs |-> Idle]
    /\ sess = [p \in Procs |-> NewSession]
    /\ nops = 0
    /\ returned = NoReturn
    /\ handler_log = {}
    /\ reg = Discovered
    /\ dl = NoDeadlineCaller
    /\ pol \in { PolicyCaller(tool_spec, input_json) :
                    tool_spec \in PolicyToolSpecs, input_json \in PolicyInputs }

\* decision = policy.evaluate(spec, input_json, context)
policy_evaluate ==
    /\ pol.phase = "start"
    /\ LET o == evaluate_objects(config, pol.tool_spec, pol.heap)
       IN  pol' = [pol EXCEPT !.phase = "evaluated",
                              !.first = evaluate(config, pol.tool_spec, pol.heap.caller),
                              !.heap = o.heap,
                              !.sanitized_input = o.sanitized_input]
    /\ UNCHANGED <<config, store, pc, call, sess, nops, returned, handler_log, reg, dl>>

\* the same call once more, on the caller's mapping as it now is
policy_evaluate_again ==
    /\ pol.phase = "evaluated"
    /\ pol' = [pol EXCEPT !.phase = "repeated",
                          !.again = evaluate(config, pol.tool_spec, pol.heap.caller)]
    /\ UNCHANGED <<config, store, pc, call, sess, nops, returned, handler_log, reg, dl>>

\* policy.evaluate(spec, decision.sanitized_input, context), as run_approved
\* does with the proposed_input an earlier decision stored
policy_evaluate_sanitized ==
    /\ pol.phase = "evaluated"
    /\ pol.first.decision # "deny"
    /\ pol' = [pol EXCEPT !.phase = "resanitized",
                          !.resanitized = evaluate(config, pol.tool_spec,
                                                   pol.first.sanitized_input)]
    /\ UNCHANGED <<config, store, pc, call, sess, nops, returned, handler_log, reg, dl>>

NextPolicy ==
    \/ policy_evaluate
    \/ policy_evaluate_again
    \/ policy_evaluate_sanitized

SpecPolicy == InitPolicy /\ [][NextPolicy]_vars

\* ------------------------------------------------------- registry discovery

\* discover() calls made on one registry object
MaxDiscovers == 2

\* one element of a manifest's "tools" list. handler is what _import_handler
\* makes of the handler string; the schema fields say whether the file that
\* schemas.input / schemas.output names exists (output may be left out)
ManifestEntry(name, mode, handler, input_schema, output_schema) ==
    [name |-> name, mode |-> mode, handler |-> handler,
     input_schema |-> input_schema, output_schema |-> output_schema]

\* packages/tools/<dir>/manifest.json
Manifest(dir, package, tools) == [dir |-> dir, package |-> package, tools |-> tools]

NoException == "none"

\* importlib.import_module raises for a missing module; the two format
\* errors are ToolRegistryError
_import_handler(handler) ==
    IF handler = "no_colon" THEN "ToolRegistryError"
    ELSE IF handler = "no_module" THEN "ModuleNotFoundError"
    ELSE IF handler = "no_attr" THEN "ToolRegistryError"
    ELSE NoException

\* Tool(spec, fn): the handler and the manifest it came from tell two tools of
\* one name apart
Tool(manifest, t) ==
    [spec |-> ToolSpec(t.name, t.mode, t.output_schema = "exists"),
     handler |-> t.handler, manifest |-> manifest.dir]

Registered(tools) == [tools |-> tools, raised |-> NoException]

Raises(tools, exception) == [tools |-> tools, raised |-> exception]

\* one pass of the loop body that stores the tool without the duplicate test
register_overwrites(tools, manifest, t) ==
    IF t.input_schema = "missing" \/ t.output_schema = "missing"
    THEN Raises(tools, "ToolRegistryError")
    ELSE IF _import_handler(t.handler) # NoException
    THEN Raises(tools, _import_handler(t.handler))
    ELSE Registered((t.name :> Tool(manifest, t)) @@ tools)

\* one pass of the loop body of _register_from_manifest (lines 62-98)
register(tools, manifest, t) ==
    IF t.input_schema = "missing"
    THEN Raises(tools, "ToolRegistryError")
    ELSE IF t.output_schema = "missing"
    THEN Raises(tools, "ToolRegistryError")
    ELSE IF _import_handler(t.handler) # NoException
    THEN Raises(tools, _import_handler(t.handler))
    ELSE IF t.name \in DOMAIN tools
    THEN Raises(tools, "ToolRegistryError")
    ELSE Registered(tools @@ (t.name :> Tool(manifest, t)))

\* for t in tools, from the i-th entry on: the first exception ends the loop
\* and leaves self._tools as the earlier passes made it
RECURSIVE register_from(_, _, _)
register_from(tools, manifest, i) ==
    IF i > Len(manifest.tools) THEN Registered(tools)
    ELSE LET r == register(tools, manifest, manifest.tools[i])
         IN  IF r.raised # NoException THEN r
             ELSE register_from(r.tools, manifest, i + 1)

_register_from_manifest(tools, manifest) ==
    IF ~manifest.package \/ manifest.tools = <<>>
    THEN Raises(tools, "ToolRegistryError")
    ELSE register_from(tools, manifest, 1)

\* for manifest_path in manifests, from the i-th on
RECURSIVE discover_from(_, _, _)
discover_from(tools, manifests, i) ==
    IF i > Len(manifests) THEN Registered(tools)
    ELSE LET r == _register_from_manifest(tools, manifests[i])
         IN  IF r.raised # NoException THEN r
             ELSE discover_from(r.tools, manifests, i + 1)

\* discover() on self._tools = tools over the globbed manifests
discover(tools, tools_root_exists, manifests) ==
    IF ~tools_root_exists THEN Raises(tools, "ToolRegistryError")
    ELSE discover_from(tools, manifests, 1)

GoodEntry(name, mode) == ManifestEntry(name, mode, "ok", "exists", "exists")

SonosStop == <<"sonos", "stop">>
GithubMerge == <<"github", "pr", "merge">>
Noop == <<"noop">>

\* the manifests a tools directory may hold
CandidateManifests ==
    { Manifest("calendar", TRUE, <<GoodEntry(Calendar, "read_only")>>),
      Manifest("sonos", TRUE, <<GoodEntry(SonosPlay, "execute_gated"),
                                GoodEntry(SonosStop, "execute_gated")>>),
      \* second entry names an input schema file that is not there
      Manifest("github", TRUE,
               <<ManifestEntry(GithubPr, "draft", "ok", "exists", "absent"),
                 ManifestEntry(GithubMerge, "draft", "ok", "missing", "absent")>>),
      \* no "package" key
      Manifest("scratch", FALSE, <<GoodEntry(Noop, "read_only")>>),
      \* another directory declaring calendar's tool again
      Manifest("calendar_copy", TRUE, <<GoodEntry(Calendar, "read_only")>>),
      \* one manifest declaring a name twice
      Manifest("door", TRUE, <<GoodEntry(DoorUnlock, "execute_gated"),
                               ManifestEntry(DoorUnlock, "execute_gated", "ok",
                                             "exists", "absent")>>),
      \* handler module that cannot be imported
      Manifest("noop", TRUE, <<ManifestEntry(Noop, "read_only", "no_module",
                                             "exists", "absent")>>),
      \* handler string without a colon
      Manifest("legacy", TRUE, <<GoodEntry(SonosStop, "execute_gated"),
                                 ManifestEntry(<<"legacy">>, "read_only", "no_colon",
                                               "exists", "exists")>>) }

\* manifests found by one glob
MaxManifests == 3

\* list(self.tools_root.glob("*/manifest.json")): the manifests of the
\* directory in the order the file system lists them
Globs ==
    UNION { { g \in [1..n -> CandidateManifests] :
                \A i, j \in 1..n : i # j => g[i] # g[j] } : n \in 0..MaxManifests }

NoTools == <<>>

\* ToolRegistry(repo_root): self._tools = {}
NewRegistry(tools_root_exists, manifests) ==
    [phase |-> "new", tools |-> NoTools, tools_root_exists |-> tools_root_exists,
     manifests |-> manifests, history |-> <<>>]

InitRegistry ==
    /\ config = [github |-> GitHubPolicy, sonos |-> SonosPolicy]
    /\ store = EmptyStore
    /\ pc = [p \in Procs |-> "idle"]
    /\ call = [p \in Procs |-> Idle]
    /\ sess = [p \in Procs |-> NewSession]
    /\ nops = 0
    /\ returned = NoReturn
    /\ handler_log = {}
    /\ pol = NoPolicyCaller
    /\ dl = NoDeadlineCaller
    /\ reg \in { NewRegistry(TRUE, manifests) : manifests \in Globs }
                \cup { NewRegistry(FALSE, <<>>) }

\* reg.discover(): the directory and its listing are unchanged between calls;
\* history keeps what each call left in self._tools and what it raised
registry_discover ==
    /\ reg.phase \in {"new", "called"}
    /\ Len(reg.history) < MaxDiscovers
    /\ LET r == discover(reg.tools, reg.tools_root_exists, reg.manifests)
       IN  reg' = [reg EXCEPT !.phase = "called",
                              !.tools = r.tools,
                              !.history = Append(@, r)]
    /\ UNCHANGED <<config, store, pc, call, sess, nops, returned, handler_log, pol, dl>>

NextRegistry == registry_discover

SpecRegistry == InitRegistry /\ [][NextRegistry]_vars

\* ------------------------------------------------------------ the deadline

\* One call followed from its timeout_ms argument to the deadline test, for
\* the arguments and elapsed times that the gateway model above does not
\* range over: timeout_ms = timeout_ms or self.default_timeout_ms (lines 65 and
\* 510), the handler, then `if elapsed_ms > timeout_ms` (lines 236 and 646).

\* timeout_ms as a caller can pass it: omitted (None), 0, positive integers
DeadlineArgs == {NoneV, IntV(0), IntV(1), IntV(5000), IntV(10000), IntV(30000)}

\* readings of _ms_since(t0) at and on both sides of those deadlines
DeadlineElapsed == {0, 1, 2, 5000, 5001, 10000, 10001, 30000, 30001}

DeadlineOps == {"run_tool", "run_approved"}

\* the locals of a call that has reached its handler
DeadlineCall(op, timeout_ms, validate_output) ==
    [op |-> op, request_id |-> 1, tool_name |-> Calendar, tool_run_id |-> 1,
     approval_id |-> IF op = "run_approved" THEN 1 ELSE NoId,
     sanitized_input |-> Input(Absent, AbsentV, Absent, Absent),
     timeout_ms |-> timeout_ms, validate_output |-> validate_output]

InitDeadline ==
    /\ config = [github |-> GitHubPolicy, sonos |-> SonosPolicy]
    /\ store = EmptyStore
    /\ pc = [p \in Procs |-> "idle"]
    /\ call = [p \in Procs |-> Idle]
    /\ sess = [p \in Procs |-> NewSession]
    /\ nops = 0
    /\ returned = NoReturn
    /\ handler_log = {}
    /\ pol = NoPolicyCaller
    /\ reg = Discovered
    /\ \E op \in DeadlineOps, timeout_arg \in DeadlineArgs :
          dl = [phase |-> "called", op |-> op, timeout_arg |-> timeout_arg]

\* the entry point fixes the call's deadline
deadline_begin ==
    /\ dl.phase = "called"
    /\ \E validate_output \in BOOLEAN :
          dl' = [phase |-> "executing", op |-> dl.op, timeout_arg |-> dl.timeout_arg,
                 c |-> DeadlineCall(dl.op, effective_timeout(dl.timeout_arg), validate_output)]
    /\ UNCHANGED <<config, store, pc, call, sess, nops, returned, handler_log, pol, reg>>

\* the handler returns or raises and the entry point settles the outcome
deadline_finish ==
    /\ dl.phase = "executing"
    /\ \E outcome \in HandlerOutcomes, elapsed_ms \in DeadlineElapsed, load \in LoadOutcomes :
          dl' = [phase |-> "finished", op |-> dl.op, timeout_arg |-> dl.timeout_arg,
                 c |-> dl.c, outcome |-> outcome, elapsed_ms |-> elapsed_ms,
                 o |-> IF dl.op = "run_tool"
                       THEN run_tool_outcome(dl.c, outcome, elapsed_ms, load)
                            @@ [raised |-> FALSE]
                       ELSE run_approved_outcome(dl.c, outcome, elapsed_ms, load)]
    /\ UNCHANGED <<config, store, pc, call, sess, nops, returned, handler_log, pol, reg>>

NextDeadline == deadline_begin \/ deadline_finish

SpecDeadline == InitDeadline /\ [][NextDeadline]_vars

\* ---------------------------------------------------------------- properties

EventsOf(event_types, approval_id) ==
    { i \in DOMAIN store.events :
        /\ store.events[i].event_type \in event_types
        /\ store.events[i].approval_id = approval_id }

ApprovedRuns(approval_id) ==
    { h \in handler_log : h.op = "run_approved" /\ h.approval_id = approval_id }

IsGated(tool_name) ==
    tool_name \in DOMAIN ToolRegistry /\ registry_get(tool_name).mode = "execute_gated"

\* C1: approval single-flight. Two concurrent run_approved calls on the same
\* approval never both get past the pending check to the handler.
C1_SingleFlight ==
    \A p, q \in Procs :
        (p # q /\ pc[p] = "ra_exec" /\ pc[q] = "ra_exec")
            => call[p].approval_id # call[q].approval_id

\* C2: an approval leaves pending once. It never has more than one resolution
\* event (approval_granted / approval_denied), and it is never denied when its
\* handler was executed.
C2_OneWinner ==
    \A a \in DOMAIN store.approvals :
        /\ Cardinality(EventsOf({"approval_granted", "approval_denied"}, a)) <= 1
        /\ store.approvals[a].status = "denied" => ApprovedRuns(a) = {}

\* C3: while the handler of an approved run is being invoked, the approval is
\* already approved in the committed store.
C3_ApprovedBeforeExecution ==
    \A p \in Procs :
        pc[p] = "ra_exec" => store.approvals[call[p].approval_id].status = "approved"

\* C4: no double-spend in sequential use. A run_approved call gets past the
\* gate only for an approval that is pending, and the handler is executed at
\* most once per approval.
C4_NoDoubleSpend ==
    /\ \A p \in Procs :
          pc[p] \in {"ra_exec", "ra_exit"}
              => store.approvals[call[p].approval_id].status = "pending"
    /\ \A a \in DOMAIN store.approvals : Cardinality(ApprovedRuns(a)) <= 1

\* C5: approval state machine. In every step an approval's status changes only
\* pending -> approved or pending -> denied, and ts_resolved is set exactly
\* when the status is not pending.
C5_ApprovalStateMachine ==
    [][\A a \in DOMAIN store.approvals :
          /\ store.approvals[a].status # store'.approvals[a].status
                => /\ store.approvals[a].status = "pending"
                   /\ store'.approvals[a].status \in {"approved", "denied"}
          /\ store'.approvals[a].ts_resolved.set <=> store'.approvals[a].status # "pending"]_vars

\* C6: run_tool never invokes the handler of an execute_gated tool: such a call
\* ends in approval_required or error, and the handler of an execute_gated tool
\* runs only in run_approved, whose session has moved the approval to approved.
C6_GatedNeverRunByRunTool ==
    /\ \A h \in handler_log :
          IsGated(h.tool_name) => h.op = "run_approved" /\ h.approval_id # NoId
    /\ \A p \in Procs :
          /\ pc[p] = "rt_exec" => ~IsGated(call[p].tool_name)
          /\ pc[p] = "ra_exec" => sess[p].ap.cur.status = "approved"
    /\ (returned.op = "run_tool" /\ IsGated(returned.res.tool_name))
          => returned.res.status \in {"approval_required", "error"}

C6_Witness ==
    /\ returned.op = "run_tool"
    /\ IsGated(returned.res.tool_name)
    /\ returned.res.status = "approval_required"
    /\ \E h \in handler_log : h.op = "run_approved" /\ IsGated(h.tool_name)

\* C7: when run_tool returns, the committed ToolRun row of the call is
\* finalized with the status of the returned envelope.
C7_ToolRunFinalized ==
    returned.op = "run_tool"
        => /\ returned.tool_run_id \in DOMAIN store.tool_runs
           /\ store.tool_runs[returned.tool_run_id].status = returned.res.status

\* C8: when run_tool returns approval_required, the committed store holds a
\* pending Approval bound to the call's ToolRun, with the approval payload as
\* its context, and that ToolRun has status approval_required.
C8_ApprovalPersisted ==
    (returned.op = "run_tool" /\ returned.res.status = "approval_required")
        => /\ \E a \in DOMAIN store.approvals :
                /\ store.approvals[a].tool_run_id = returned.tool_run_id
                /\ store.approvals[a].status = "pending"
                /\ store.approvals[a].approval_context_json = returned.res.data.approval_request
           /\ store.tool_runs[returned.tool_run_id].status = "approval_required"

OutcomeEvents == {"tool_succeeded", "tool_failed", "policy_violation", "approval_requested"}

\* the outcome events of a ToolRun: those of its run_tool call (by request_id)
\* and those of a run_approved on its approval (by approval_id)
OutcomeEventsOf(tr) ==
    { i \in DOMAIN store.events :
        /\ store.events[i].event_type \in OutcomeEvents
        /\ \/ store.events[i].request_id = tr.request_id
           \/ /\ store.events[i].approval_id \in DOMAIN store.approvals
              /\ store.approvals[store.events[i].approval_id].tool_run_id = tr.tool_run_id }

\* C9: the committed store holds a state change exactly when it holds the event
\* of that change: a ToolRun is finalized iff one of its outcome events is
\* there, an Approval exists iff its approval_requested event is there, and an
\* Approval is resolved iff an approval_granted or approval_denied event for
\* it is there.
C9_AtomicAudit ==
    /\ \A t \in DOMAIN store.tool_runs :
          store.tool_runs[t].status # "started" <=> OutcomeEventsOf(store.tool_runs[t]) # {}
    /\ \A i \in DOMAIN store.events :
          /\ store.events[i].event_type = "approval_requested"
                => store.events[i].approval_id \in DOMAIN store.approvals
          /\ store.events[i].event_type \in {"approval_granted", "approval_denied"}
                => /\ store.events[i].approval_id \in DOMAIN store.approvals
                   /\ store.approvals[store.events[i].approval_id].status # "pending"
          /\ store.events[i].event_type \in OutcomeEvents
                => \E t \in DOMAIN store.tool_runs :
                      /\ i \in OutcomeEventsOf(store.tool_runs[t])
                      /\ store.tool_runs[t].status # "started"
    /\ \A a \in DOMAIN store.approvals :
          /\ EventsOf({"approval_requested"}, a) # {}
          /\ store.approvals[a].status # "pending"
                <=> EventsOf({"approval_granted", "approval_denied"}, a) # {}

C9_Witness ==
    /\ \E a \in DOMAIN store.approvals :
          /\ store.approvals[a].status = "approved"
          /\ EventsOf({"approval_granted"}, a) # {}
          /\ EventsOf({"tool_succeeded"}, a) # {}
    /\ \E i \in DOMAIN store.events :
          store.events[i].event_type = "tool_failed" /\ store.events[i].request_id # NoId

\* C10: when run_tool or run_approved returns status ok, exactly one ToolRun
\* row carries the envelope's request_id, it has status ok, and a
\* tool_succeeded event of the call is recorded.
C10_OkHasRow ==
    (returned.op \in {"run_tool", "run_approved"} /\ returned.res.status = "ok")
        => /\ Cardinality({ t \in DOMAIN store.tool_runs :
                              store.tool_runs[t].request_id = returned.res.request_id }) = 1
           /\ \A t \in DOMAIN store.tool_runs :
                 store.tool_runs[t].request_id = returned.res.request_id
                     => store.tool_runs[t].status = "ok"
           /\ \E i \in DOMAIN store.events :
                 /\ store.events[i].event_type = "tool_succeeded"
                 /\ \/ store.events[i].request_id = returned.res.request_id
                    \/ (returned.approval_id # NoId
                        /\ store.events[i].approval_id = returned.approval_id)

\* C11: event ordering per approval. In the committed event log, for every
\* approval_id the approval_requested event comes before every approval_granted
\* or approval_denied event, each of those comes before every tool_succeeded or
\* tool_failed event carrying the approval_id, and such an outcome event has an
\* approval_granted event before it.
C11_EventOrder ==
    \A a \in DOMAIN store.approvals :
        /\ \A i \in EventsOf({"approval_granted", "approval_denied"}, a) :
              \E j \in EventsOf({"approval_requested"}, a) : j < i
        /\ \A k \in EventsOf({"tool_succeeded", "tool_failed"}, a) :
              /\ \E i \in EventsOf({"approval_granted"}, a) : i < k
              /\ \A i \in EventsOf({"approval_granted", "approval_denied"}, a) : i < k

\* C12: ToolRun status is monotone. In every step a committed row never goes
\* back to started, its status changes only started -> {ok, error, timeout,
\* approval_required} or approval_required -> {ok, error, timeout}, and a row
\* in ok, error or timeout is not modified.
C12_ToolRunMonotone ==
    [][\A t \in DOMAIN store.tool_runs :
          LET old == store.tool_runs[t]
              new == store'.tool_runs[t]
          IN  /\ old.status # new.status
                    => \/ /\ old.status = "started"
                          /\ new.status \in {"ok", "error", "timeout", "approval_required"}
                       \/ /\ old.status = "approval_required"
                          /\ new.status \in {"ok", "error", "timeout"}
              /\ old.status \in {"ok", "error", "timeout"} => new = old]_vars

\* the tool_name of the envelopes run_approved returns from its gate
ApprovalResolve == <<"approval", "resolve">>

\* a run_approved call that got past the pending gate has just returned res
ReturnedPastGate ==
    /\ returned.op = "run_approved"
    /\ returned.res.status # "raised"
    /\ returned.res.tool_name # ApprovalResolve

\* C13: when a run_approved call that passed the pending gate returns a failure
\* envelope (error or timeout), the approval is approved with ts_resolved set,
\* the ToolRun the approval refers to carries the envelope's status and error,
\* no ToolRun row was created for the call, and after an input re-validation
\* failure (error/VALIDATION_ERROR) the handler was not invoked by the call.
C13_FailureKeepsApproval ==
    (ReturnedPastGate /\ returned.res.status \in {"error", "timeout"})
        => LET a == store.approvals[returned.approval_id]
               tr == store.tool_runs[a.tool_run_id]
           IN  /\ a.status = "approved"
               /\ a.ts_resolved.set
               /\ returned.tool_run_id = a.tool_run_id
               /\ tr.status = returned.res.status
               /\ tr.error_json = returned.res.error
               /\ \A t \in DOMAIN store.tool_runs :
                     store.tool_runs[t].request_id # returned.res.request_id
               /\ returned.res.error.message = "Input validation failed (approved run)"
                     => /\ returned.res.error.code = "VALIDATION_ERROR"
                        /\ \A h \in handler_log : h.request_id # returned.res.request_id

C13_Witness ==
    /\ ReturnedPastGate
    /\ returned.res.status = "error"
    /\ returned.res.error.code = "VALIDATION_ERROR"
    /\ returned.res.error.message = "Input validation failed (approved run)"
    /\ store.approvals[returned.approval_id].status = "approved"
    /\ store.tool_runs[returned.tool_run_id].status = "error"

\* the decision of the current policy on the proposed_input stored with an approval
CurrentDecision(approval_id) ==
    LET ctx == store.approvals[approval_id].approval_context_json
    IN  evaluate(config, registry_get(ctx.tool_name), ctx.proposed_input)

HandlerRanFor(request_id) == \E h \in handler_log : h.request_id = request_id

\* C14: run_approved re-evaluates policy on the stored proposed_input under the
\* current config. The handler is being invoked only when that decision is not
\* deny, with the decision's sanitized input, and the call's session requests
\* no new Approval. A call that returns on a deny decision returns
\* error/POLICY_VIOLATION (or the validation error that precedes policy), has
\* not invoked the handler, and has a policy_violation event recorded when it
\* returned POLICY_VIOLATION. A call that returns on require_approval or allow
\* after a valid input has invoked the handler.
C14_ApprovedRunPolicy ==
    /\ \A p \in Procs :
          pc[p] \in {"ra_exec", "ra_exit"}
              => /\ sess[p].new_ap = NoRow
                 /\ pc[p] = "ra_exec"
                       => /\ CurrentDecision(call[p].approval_id).decision
                                \in {"allow", "require_approval"}
                          /\ call[p].sanitized_input =
                                CurrentDecision(call[p].approval_id).sanitized_input
    /\ (ReturnedPastGate /\ returned.res.tool_name \in DOMAIN ToolRegistry)
          => LET d == CurrentDecision(returned.approval_id)
                 res == returned.res
                 invalid_input == /\ res.status = "error"
                                  /\ res.error.message = "Input validation failed (approved run)"
             IN  /\ d.decision = "deny"
                       => /\ ~HandlerRanFor(res.request_id)
                          /\ res.status = "error"
                          /\ res.error.code \in {"POLICY_VIOLATION", "VALIDATION_ERROR"}
                 /\ (res.status = "error" /\ res.error.code = "POLICY_VIOLATION")
                       => /\ d.decision = "deny"
                          /\ res.error.message = d.reason
                          /\ EventsOf({"policy_violation"}, returned.approval_id) # {}
                 /\ (d.decision # "deny" /\ ~invalid_input) => HandlerRanFor(res.request_id)

C14_Witness ==
    /\ ReturnedPastGate
    /\ returned.res.status = "error"
    /\ returned.res.error.code = "POLICY_VIOLATION"
    /\ CurrentDecision(returned.approval_id).decision = "deny"
    /\ EventsOf({"policy_violation"}, returned.approval_id) # {}
    /\ ~HandlerRanFor(returned.res.request_id)

\* the decision of the policy on the input of the run_tool call that has just
\* returned, when that call got as far as policy evaluation
ReturnedFromPolicy ==
    /\ returned.op = "run_tool"
    /\ returned.res.tool_name \in DOMAIN ToolRegistry
    /\ ~(/\ returned.res.status = "error"
         /\ returned.res.error.message \in {"Input validation failed",
                                            "Failed to load/validate input schema"})

ReturnedDecision ==
    evaluate(config, registry_get(returned.res.tool_name),
             store.tool_runs[returned.tool_run_id].input_json)

\* C15 (envelope and handler): a run_tool call whose policy decision is deny
\* returns error/POLICY_VIOLATION with the decision's reason and details, and
\* has not invoked the handler.
C15_DenyEnvelope ==
    (ReturnedFromPolicy /\ ReturnedDecision.decision = "deny")
        => /\ returned.res.status = "error"
           /\ returned.res.error.code = "POLICY_VIOLATION"
           /\ returned.res.error.message = ReturnedDecision.reason
           /\ returned.res.error.details = ReturnedDecision.details
           /\ ~HandlerRanFor(returned.res.request_id)

\* C15: when policy evaluation in run_tool yields deny, the call returns
\* error/POLICY_VIOLATION with the decision's reason and details, a
\* policy_violation event of the call is recorded, no Approval row refers to
\* the call's ToolRun, the handler was not invoked, and the ToolRun is
\* finalized as error.
C15_DenyOutcome ==
    (ReturnedFromPolicy /\ ReturnedDecision.decision = "deny")
        => /\ C15_DenyEnvelope
           /\ \E i \in DOMAIN store.events :
                 /\ store.events[i].event_type = "policy_violation"
                 /\ store.events[i].request_id = returned.res.request_id
           /\ \A a \in DOMAIN store.approvals :
                 store.approvals[a].tool_run_id # returned.tool_run_id
           /\ store.tool_runs[returned.tool_run_id].status = "error"

\* C16: input validation gates everything after it in run_tool. A call whose
\* input violates the tool's input schema returns error/VALIDATION_ERROR, one
\* whose schema fails to load returns error/INTERNAL_ERROR, and in neither case
\* did the call act on a policy decision (no POLICY_VIOLATION, no
\* approval_required), create an Approval, or invoke the handler; a handler
\* that is being invoked by run_tool got an input that validated.
C16_InputValidationGates ==
    /\ (returned.op = "run_tool" /\ returned.input_schema \in {"invalid", "load_error"})
          => /\ returned.res.status = "error"
             /\ returned.res.error.code =
                   (IF returned.input_schema = "invalid"
                    THEN "VALIDATION_ERROR" ELSE "INTERNAL_ERROR")
             /\ returned.approval_id = NoId
             /\ \A a \in DOMAIN store.approvals :
                   store.approvals[a].tool_run_id # returned.tool_run_id
             /\ ~HandlerRanFor(returned.res.request_id)
    /\ (returned.op = "run_tool" /\ HandlerRanFor(returned.res.request_id))
          => returned.input_schema = "valid"

C16_Witness ==
    /\ returned.op = "run_tool"
    /\ returned.input_schema = "invalid"
    /\ returned.res.error.code = "VALIDATION_ERROR"
    /\ evaluate(config, registry_get(returned.res.tool_name),
                store.tool_runs[returned.tool_run_id].input_json).decision = "deny"

\* C17: run_tool with a tool name that is not in the registry returns
\* error/NOT_FOUND, the ToolRun created for the call is finalized as error with
\* the envelope's error, the event log holds the call's tool_called followed by
\* its tool_failed, and no handler was invoked.
C17_UnknownTool ==
    (returned.op = "run_tool" /\ registry_get_raises(returned.res.tool_name))
        => /\ returned.res.status = "error"
           /\ returned.res.error.code = "NOT_FOUND"
           /\ returned.tool_run_id \in DOMAIN store.tool_runs
           /\ store.tool_runs[returned.tool_run_id].request_id = returned.res.request_id
           /\ store.tool_runs[returned.tool_run_id].status = "error"
           /\ store.tool_runs[returned.tool_run_id].error_json = returned.res.error
           /\ \E i, j \in DOMAIN store.events :
                 /\ i < j
                 /\ store.events[i].event_type = "tool_called"
                 /\ store.events[i].request_id = returned.res.request_id
                 /\ store.events[j].event_type = "tool_failed"
                 /\ store.events[j].request_id = returned.res.request_id
           /\ ~HandlerRanFor(returned.res.request_id)

C17_Witness ==
    /\ returned.op = "run_tool"
    /\ returned.res.tool_name = UnknownTool
    /\ returned.res.error.code = "NOT_FOUND"
    /\ store.tool_runs[returned.tool_run_id].status = "error"

\* what the two entry points can make of a handler that raises, in the call
\* contexts that reach the handler
HandlerFailureEnvelope(outcome, o) ==
    /\ o.res.status = "error"
    /\ o.res.error.code = (IF outcome.kind = "ToolError" THEN outcome.code ELSE "INTERNAL_ERROR")

\* C18 (envelope): whenever a handler is being invoked by run_tool or
\* run_approved, its raising ToolError yields an error envelope with the
\* ToolError's code, its raising anything else yields error/INTERNAL_ERROR, and
\* in neither case does the exception leave the call.
C18_FailureEnvelope ==
    \A p \in Procs :
        \A outcome \in { x \in HandlerOutcomes : x.kind \in {"ToolError", "Exception"} },
           elapsed_ms \in ElapsedMs, load \in LoadOutcomes :
            /\ pc[p] = "rt_exec"
                  => HandlerFailureEnvelope(outcome,
                                            run_tool_outcome(call[p], outcome, elapsed_ms, load))
            /\ pc[p] = "ra_exec"
                  => /\ HandlerFailureEnvelope(outcome,
                                               run_approved_outcome(call[p], outcome,
                                                                    elapsed_ms, load))
                     /\ ~run_approved_outcome(call[p], outcome, elapsed_ms, load).raised

HandlerFailureMessages ==
    {"tool error", "Tool execution failed", "Tool execution failed (approved run)"}

\* C18: handler failures are values. A handler that raises ToolError yields
\* error/<its code>, any other exception yields error/INTERNAL_ERROR, the
\* exception does not propagate, and when the call returns such an envelope
\* its ToolRun is finalized as error and a tool_failed event of the call is
\* recorded.
C18_HandlerFailuresAreValues ==
    /\ C18_FailureEnvelope
    /\ (/\ returned.op \in {"run_tool", "run_approved"}
        /\ returned.res.status = "error"
        /\ returned.res.error.message \in HandlerFailureMessages)
          => /\ returned.tool_run_id \in DOMAIN store.tool_runs
             /\ store.tool_runs[returned.tool_run_id].status = "error"
             /\ \E i \in DOMAIN store.events :
                   /\ store.events[i].event_type = "tool_failed"
                   /\ \/ store.events[i].request_id = returned.res.request_id
                      \/ /\ returned.approval_id # NoId
                         /\ store.events[i].approval_id = returned.approval_id

\* C19: no exception leaves run_tool or run_approved. When loading the input
\* schema fails during run_approved (after the approval was granted), or the
\* call ends on any other failure below the gateway, the caller gets an
\* envelope; for the schema-load failure it is error/INTERNAL_ERROR, the
\* approval is approved and the referenced ToolRun is finalized as error.
C19_NoPropagation ==
    /\ returned.op \in {"run_tool", "run_approved"} => returned.res.status # "raised"
    /\ (returned.op = "run_approved" /\ returned.input_schema = "load_error")
          => /\ returned.res.status = "error"
             /\ returned.res.error.code = "INTERNAL_ERROR"
             /\ store.approvals[returned.approval_id].status = "approved"
             /\ store.tool_runs[returned.tool_run_id].status = "error"

DeclaresOutputSchema(tool_name) ==
    tool_name \in DOMAIN ToolRegistry /\ registry_get(tool_name).output_schema

BadReturns == { x \in HandlerOutcomes : x.kind = "return" /\ ~x.out.valid }

\* C20: for a tool that declares an output schema, with validate_output = true
\* neither run_tool nor run_approved returns a status=ok envelope whose data
\* violates the schema, and run_approved does not finalize the ToolRun as ok
\* with such data; when the handler of such a call returns violating data
\* within the timeout and the schema loads, the outcome is
\* error/VALIDATION_ERROR.
C20_OkOutputValid ==
    /\ (/\ returned.op \in {"run_tool", "run_approved"}
        /\ returned.res.status = "ok"
        /\ returned.ctx.validate_output
        /\ DeclaresOutputSchema(returned.res.tool_name))
          => /\ returned.res.data.valid
             /\ (returned.op = "run_approved"
                 /\ store.tool_runs[returned.tool_run_id].status = "ok")
                   => store.tool_runs[returned.tool_run_id].output_json.valid
    /\ \A p \in Procs :
          (/\ pc[p] \in {"rt_exec", "ra_exec"}
           /\ call[p].validate_output
           /\ DeclaresOutputSchema(call[p].tool_name))
              => \A outcome \in BadReturns, elapsed_ms \in ElapsedMs, load \in LoadOutcomes :
                    LET o == IF pc[p] = "rt_exec"
                             THEN run_tool_outcome(call[p], outcome, elapsed_ms, load)
                             ELSE run_approved_outcome(call[p], outcome, elapsed_ms, load)
                    IN  /\ o.res # NoReturn => o.res.status # "ok"
                        /\ (elapsed_ms <= call[p].timeout_ms /\ load = "ok")
                              => /\ o.res.status = "error"
                                 /\ o.res.error.code = "VALIDATION_ERROR"

C20_Witness ==
    /\ returned.op \in {"run_tool", "run_approved"}
    /\ returned.ctx # Idle
    /\ returned.ctx.validate_output
    /\ DeclaresOutputSchema(returned.res.tool_name)
    /\ returned.res.status = "error"
    /\ returned.res.error.code = "VALIDATION_ERROR"
    /\ returned.res.error.message \in {"Output validation failed",
                                       "Output validation failed (approved run)"}

\* readings of _ms_since(t0) on both sides of the deadline, and at it
ElapsedProbes == ElapsedMs \cup {default_timeout_ms, default_timeout_ms + 1}

NormalReturns == { x \in HandlerOutcomes : x.kind = "return" }

\* C21: soft post-hoc timeout. A call that returns status=timeout carries code
\* TIMEOUT and empty data, its handler was invoked, and its elapsed time
\* exceeded timeout_ms (run_approved records the same on the ToolRun); a call
\* that returns ok did not exceed it; and whenever a handler that is being
\* invoked returns normally, the call's outcome is timeout if and only if the
\* elapsed milliseconds exceed timeout_ms.
C21_SoftTimeout ==
    /\ (returned.op \in {"run_tool", "run_approved"} /\ returned.res.status = "timeout")
          => /\ returned.res.error.code = "TIMEOUT"
             /\ returned.res.data = Empty
             /\ HandlerRanFor(returned.res.request_id)
             /\ returned.res.error.details.elapsed_ms > returned.ctx.timeout_ms
             /\ returned.op = "run_approved"
                   => /\ store.tool_runs[returned.tool_run_id].status = "timeout"
                      /\ store.tool_runs[returned.tool_run_id].output_json = Empty
                      /\ store.tool_runs[returned.tool_run_id].error_json.code = "TIMEOUT"
    /\ (returned.op \in {"run_tool", "run_approved"} /\ returned.res.status = "ok")
          => returned.res.meta.latency_ms <= returned.res.meta.timeout_ms
    /\ \A p \in Procs :
          \A outcome \in NormalReturns, elapsed_ms \in ElapsedProbes, load \in LoadOutcomes :
              /\ pc[p] = "rt_exec"
                    => (run_tool_outcome(call[p], outcome, elapsed_ms, load).res.status = "timeout"
                            <=> elapsed_ms > call[p].timeout_ms)
              /\ pc[p] = "ra_exec"
                    => LET o == run_approved_outcome(call[p], outcome, elapsed_ms, load)
                       IN  IF o.raised THEN elapsed_ms <= call[p].timeout_ms
                           ELSE (o.res.status = "timeout" <=> elapsed_ms > call[p].timeout_ms)

C21_Witness ==
    /\ returned.op = "run_approved"
    /\ returned.res.status = "timeout"
    /\ returned.res.error.code = "TIMEOUT"
    /\ HandlerRanFor(returned.res.request_id)
    /\ store.tool_runs[returned.tool_run_id].status = "timeout"

\* run_tool or run_approved has just returned a ToolResult
ReturnedEnvelope ==
    /\ returned.op \in {"run_tool", "run_approved"}
    /\ returned.res.status # "raised"

\* C22: envelope shape. Every ToolResult returned by run_tool or run_approved
\* has status in {ok, error, timeout, approval_required}; error is a record
\* {code, message, details} exactly when status is error or timeout and is
\* absent (None) when status is ok or approval_required; meta carries
\* latency_ms and source = "gateway".
C22_EnvelopeShape ==
    ReturnedEnvelope
        => LET res == returned.res
           IN  /\ res.status \in {"ok", "error", "timeout", "approval_required"}
               /\ res.status \in {"error", "timeout"} <=> res.error # NoError
               /\ res.error # NoError => DOMAIN res.error = {"code", "message", "details"}
               /\ "latency_ms" \in DOMAIN res.meta
               /\ "source" \in DOMAIN res.meta
               /\ res.meta.source = "gateway"
               /\ res.meta.latency_ms \in Nat

C22_Witness ==
    /\ ReturnedEnvelope
    /\ returned.res.status = "timeout"
    /\ DOMAIN returned.res.error = {"code", "message", "details"}
    /\ returned.res.meta.source = "gateway"

\* C23: deny_approval on a pending approval moves it to denied, sets ts_resolved
\* and emits approval_denied; on an approval that does not exist or is already
\* approved or denied it is a no-op: no Approval field changes and no event is
\* emitted. Stated on the step in which deny_approval returns, against the
\* committed store it returns over.
C23_DenyEffect ==
    [][returned'.op = "deny_approval"
          => LET approval_id == returned'.approval_id
                 ap == get_approval(store, approval_id)
             IN  IF ap # NoRow /\ ap.status = "pending"
                 THEN /\ store'.approvals[approval_id].status = "denied"
                      /\ store'.approvals[approval_id].ts_resolved # NoTs
                      /\ store'.approvals =
                            [store.approvals EXCEPT ![approval_id] =
                                [@ EXCEPT !.status = "denied",
                                          !.ts_resolved = store'.approvals[approval_id].ts_resolved]]
                      /\ store'.events =
                            Append(store.events,
                                   Event("approval_denied", Absent, NoId, approval_id, Empty))
                 ELSE /\ store'.approvals = store.approvals
                      /\ store'.events = store.events]_vars

\* C24: deny_approval never modifies any ToolRun row: the step in which it
\* returns leaves every ToolRun as it was; once an approval is denied its
\* ToolRun has status approval_required, and no later step changes that row
\* (output_json, error_json, latency_ms and status stay as they were).
C24_DenyKeepsToolRun ==
    [][/\ returned'.op = "deny_approval" => store'.tool_runs = store.tool_runs
       /\ \A approval_id \in DOMAIN store'.approvals :
             LET ap == store'.approvals[approval_id]
             IN  (ap.status = "denied" /\ ap.tool_run_id \in DOMAIN store'.tool_runs)
                    => /\ store'.tool_runs[ap.tool_run_id].status = "approval_required"
                       /\ (/\ approval_id \in DOMAIN store.approvals
                           /\ store.approvals[approval_id].status = "denied")
                             => store'.tool_runs[ap.tool_run_id]
                                   = store.tool_runs[ap.tool_run_id]]_vars

\* the policy caller has its first decision
Evaluated == pol.phase \in {"evaluated", "repeated", "resanitized"}

\* C25: policy mode branch. evaluate returns allow with sanitized_input equal
\* to the input for every read_only tool; allow for a draft tool whose name
\* matches no rule prefix; require_approval with reason "execute_gated tool
\* requires approval" for an execute_gated tool whose name matches no rule
\* prefix; and deny with reason "Unknown tool mode '{mode}'" for any other
\* mode value.
C25_ModeBranch ==
    Evaluated
        => LET name == pol.tool_spec.name
               mode == pol.tool_spec.mode
               d == pol.first
           IN  /\ mode = "read_only"
                     => d.decision = "allow" /\ d.sanitized_input = pol.input_json
               /\ (mode = "draft" /\ ~startswith_github_pr(name))
                     => d.decision = "allow" /\ d.sanitized_input = pol.input_json
               /\ (mode = "execute_gated" /\ ~startswith_sonos(name))
                     => /\ d.decision = "require_approval"
                        /\ d.reason = "execute_gated tool requires approval"
                        /\ d.sanitized_input = pol.input_json
               /\ mode \notin {"read_only", "draft", "execute_gated"}
                     => /\ d.decision = "deny"
                        /\ mode = "admin" => d.reason = "Unknown tool mode 'admin'"
                        /\ mode = "READ_ONLY" => d.reason = "Unknown tool mode 'READ_ONLY'"

C25_Witness ==
    /\ Evaluated
    /\ pol.tool_spec.mode = "admin"
    /\ pol.tool_spec.name = SonosPlay
    /\ pol.first.decision = "deny"
    /\ pol.first.reason = "Unknown tool mode 'admin'"

\* a key that is in the mapping with a value other than None
Present(value) == value.t \notin {"absent", "none"}

\* C26: sonos.* rules (mode execute_gated) apply first-match in this order:
\* config.sonos unset -> deny "Sonos policy not configured"; room present and
\* not in allowed_rooms -> deny; volume present and not integer-coercible ->
\* deny "Invalid volume type"; volume greater than max_volume ->
\* require_approval with sanitized volume = max_volume and the 'capped'
\* reason; otherwise require_approval "Sonos actions require approval" with
\* the input unchanged. The decision is never allow, and for integer volumes
\* the sanitized volume of a require_approval decision never exceeds
\* max_volume.
C26_SonosRules ==
    (Evaluated /\ pol.tool_spec.mode = "execute_gated" /\ startswith_sonos(pol.tool_spec.name))
        => LET input == pol.input_json
               d == pol.first
               s == config.sonos
           IN  /\ IF s = Unset
                  THEN d.decision = "deny" /\ d.reason = "Sonos policy not configured"
                  ELSE IF input.room # Absent /\ input.room \notin s.allowed_rooms
                  THEN d.decision = "deny"
                  ELSE IF Present(input.volume) /\ ~IntCoercible(input.volume)
                  THEN d.decision = "deny" /\ d.reason = "Invalid volume type"
                  ELSE IF Present(input.volume) /\ int(input.volume) > s.max_volume
                  THEN /\ d.decision = "require_approval"
                       /\ d.sanitized_input = [input EXCEPT !.volume = IntV(s.max_volume)]
                       /\ d.reason = "Requested volume exceeds cap; capped and requires approval"
                  ELSE /\ d.decision = "require_approval"
                       /\ d.reason = "Sonos actions require approval"
                       /\ d.sanitized_input = input
               /\ d.decision # "allow"
               /\ (d.decision = "require_approval" /\ d.sanitized_input.volume.t = "int")
                     => d.sanitized_input.volume.v <= s.max_volume

\* a room outside the allowlist is denied for the room although its volume is
\* also above the cap
C26_Witness ==
    /\ Evaluated
    /\ pol.tool_spec = ToolSpec(SonosPlay, "execute_gated", FALSE)
    /\ config.sonos = SonosPolicy
    /\ pol.input_json.room = "Garage"
    /\ pol.input_json.volume = IntV(80)
    /\ pol.first.decision = "deny"
    /\ pol.first.reason = "Room not allowlisted"

\* C27: github.pr.* rules (mode draft) apply first-match in this order:
\* config.github unset -> deny "GitHub policy not configured"; repo not in
\* allowed_repos -> deny with details carrying the repo and the allowlist;
\* draft_only true and input.draft is not true -> allow with
\* sanitized_input.draft = true and reason "Enforced draft-only PR creation";
\* otherwise allow with the original input. Under draft_only, every allow
\* decision has sanitized_input.draft = true.
C27_GithubRules ==
    (Evaluated /\ pol.tool_spec.mode = "draft" /\ startswith_github_pr(pol.tool_spec.name))
        => LET input == pol.input_json
               d == pol.first
               gh == config.github
           IN  /\ IF gh = Unset
                  THEN d.decision = "deny" /\ d.reason = "GitHub policy not configured"
                  ELSE IF input.repo \notin gh.allowed_repos
                  THEN /\ d.decision = "deny"
                       /\ "repo" \in DOMAIN d.details
                       /\ "allowed_repos" \in DOMAIN d.details
                       /\ d.details.repo = input.repo
                       /\ d.details.allowed_repos = gh.allowed_repos
                  ELSE IF gh.draft_only /\ input.draft # "true"
                  THEN /\ d.decision = "allow"
                       /\ d.sanitized_input = [input EXCEPT !.draft = "true"]
                       /\ d.reason = "Enforced draft-only PR creation"
                  ELSE /\ d.decision = "allow"
                       /\ d.sanitized_input = input
               /\ (gh # Unset /\ d.decision = "allow")
                     => (gh.draft_only => d.sanitized_input.draft = "true")

C27_Witness ==
    /\ Evaluated
    /\ pol.tool_spec = ToolSpec(GithubPr, "draft", FALSE)
    /\ config.github = GitHubPolicy
    /\ pol.input_json.repo = "org/app"
    /\ pol.input_json.draft = "false"
    /\ pol.first.decision = "allow"
    /\ pol.first.sanitized_input.draft = "true"
    /\ pol.first.reason = "Enforced draft-only PR creation"

\* C28: policy evaluation is pure and deterministic: for fixed (config, spec,
\* input, context) two evaluations yield the same decision, reason, details
\* and sanitized_input, and evaluate never mutates the caller's input mapping
\* (sanitization is applied to a copy). The second evaluation is made on the
\* caller's mapping object as the first evaluation left it.
C28_PureEvaluate ==
    /\ Evaluated
          => /\ pol.heap.caller = pol.input_json
             /\ pol.heap[pol.sanitized_input] = pol.first.sanitized_input
             /\ pol.first.sanitized_input # pol.input_json => pol.sanitized_input # "caller"
    /\ pol.phase = "repeated"
          => /\ pol.again.decision = pol.first.decision
             /\ pol.again.reason = pol.first.reason
             /\ pol.again.details = pol.first.details
             /\ pol.again.sanitized_input = pol.first.sanitized_input

\* a capped volume: the decision carries 40, the caller's mapping still 80,
\* and the repeated evaluation caps again
C28_Witness ==
    /\ pol.phase = "repeated"
    /\ pol.input_json.volume = IntV(80)
    /\ pol.first.sanitized_input.volume = IntV(40)
    /\ pol.heap.caller.volume = IntV(80)
    /\ pol.again = pol.first

\* C29: input sanitization is idempotent: for every tool spec, config and
\* input for which the decision is not deny, evaluating policy on the returned
\* sanitized_input yields the same decision kind and a sanitized_input equal
\* to the one it was given.
C29_SanitizeIdempotent ==
    pol.phase = "resanitized"
        => /\ pol.first.decision # "deny"
           /\ pol.resanitized.decision = pol.first.decision
           /\ pol.resanitized.sanitized_input = pol.first.sanitized_input

\* a string volume above the cap is replaced by the integer cap, which a
\* second evaluation leaves alone
C29_Witness ==
    /\ pol.phase = "resanitized"
    /\ pol.input_json.volume = StrV("80")
    /\ pol.first.sanitized_input.volume = IntV(40)
    /\ pol.resanitized.decision = "require_approval"
    /\ pol.resanitized.sanitized_input.volume = IntV(40)

\* C30: the only input ever executed is a sanitized one. Every handler
\* invocation made by run_tool or run_approved passes the sanitized_input of a
\* non-deny policy decision computed in that same call (never the raw caller
\* input or the raw stored proposed_input): the input a handler received is
\* one the current policy does not deny and leaves as it is, so a sonos
\* handler never receives an integer volume above the current max_volume and
\* a github.pr handler under draft_only never receives draft other than true.
C30_OnlySanitizedExecuted ==
    \A h \in handler_log :
        /\ ~registry_get_raises(h.tool_name)
        /\ LET decision == evaluate(config, registry_get(h.tool_name), h.input_json)
           IN  /\ decision.decision # "deny"
               /\ decision.sanitized_input = h.input_json
        /\ (startswith_sonos(h.tool_name) /\ h.input_json.volume.t = "int")
              => /\ config.sonos # Unset
                 /\ h.input_json.volume.v <= config.sonos.max_volume
        /\ (startswith_github_pr(h.tool_name) /\ config.github # Unset)
              => (config.github.draft_only => h.input_json.draft = "true")

\* an approval stored with volume 80 under an earlier cap is executed with the
\* current cap's 40
C30_Witness ==
    \E h \in handler_log :
        /\ h.op = "run_approved"
        /\ h.approval_id \in DOMAIN store.approvals
        /\ store.approvals[h.approval_id].approval_context_json.proposed_input.volume = IntV(80)
        /\ h.input_json.volume = IntV(40)

\* a registry on which discover() has been called
Called == reg.phase = "called"

\* self._tools before the latest discover() call
ToolsBefore ==
    IF Len(reg.history) = 1 THEN NoTools ELSE reg.history[Len(reg.history) - 1].tools

\* C31: registry discover() is idempotent: calling discover() a second time on
\* a registry that already discovered the same, unchanged manifests succeeds
\* and leaves the set of registered tools identical to the set after the
\* first call.
C31_DiscoverIdempotent ==
    (Called /\ Len(reg.history) = 2 /\ reg.history[1].raised = NoException)
        => /\ reg.history[2].raised = NoException
           /\ reg.tools = reg.history[1].tools

\* C32: registry discover() is all-or-nothing: if any manifest or tool entry
\* fails (invalid manifest shape, missing schema file, unresolvable handler,
\* duplicate name), discover() raises and the registry's set of tools is
\* exactly what it was before the call, with no tools from earlier manifests
\* or earlier entries of the failing manifest left registered.
C32_DiscoverAllOrNothing ==
    (Called /\ reg.history[Len(reg.history)].raised # NoException)
        => reg.tools = ToolsBefore

\* the places (manifest, entry) of the listing that declare a name
Declarations(name) ==
    { d \in (DOMAIN reg.manifests) \X (1..2) :
        /\ d[2] \in DOMAIN reg.manifests[d[1]].tools
        /\ reg.manifests[d[1]].tools[d[2]].name = name }

Earlier(d, e) == d[1] < e[1] \/ (d[1] = e[1] /\ d[2] < e[2])

\* the entries of a manifest could all be registered on their own
Clean(manifest) ==
    /\ manifest.package
    /\ manifest.tools # <<>>
    /\ \A i \in DOMAIN manifest.tools :
          /\ manifest.tools[i].input_schema = "exists"
          /\ manifest.tools[i].output_schema # "missing"
          /\ manifest.tools[i].handler = "ok"

C34_InitialWriteFailure ==
    (returned.op = "run_tool" /\ returned.res.status = "raised")
        => LET request_id == returned.res.request_id
           IN  /\ \A i \in DOMAIN store.events : store.events[i].request_id # request_id
               /\ \A t \in DOMAIN store.tool_runs :
                     store.tool_runs[t].request_id # request_id
               /\ ~HandlerRanFor(request_id)
               /\ returned.input_schema = "unchecked"
               /\ returned.ctx = Idle

\* the second call of a behaviour fails at its first write: what the first
\* call committed is there, and nothing of the second
C34_Witness ==
    /\ returned.op = "run_tool"
    /\ returned.res.status = "raised"
    /\ returned.res.request_id = 2
    /\ \E i \in DOMAIN store.events : store.events[i].request_id = 1

\* the call that has just returned had built its terminal envelope
OutcomeKnown ==
    /\ returned.op = "run_approved"
    /\ returned.ctx # Idle
    /\ ~returned.ctx.raised
    /\ returned.ctx.res # NoReturn
    /\ returned.ctx.res.status \in {"ok", "error", "timeout"}

\* C35: if an audit-store write fails during finalization of a ToolRun (after
\* the outcome is known), run_tool and run_approved still return the terminal
\* envelope for that outcome to the caller instead of raising; the row may
\* remain in started.
C35_FinalizationFailure ==
    OutcomeKnown => returned.res = returned.ctx.res

\* the outcome event run_tool logs for the envelope it returned: tool_succeeded
\* (line 285), approval_requested (line 188), policy_violation (line 149),
\* tool_failed on every other exit
ExpectedOutcomeEvent ==
    IF returned.res.status = "ok" THEN "tool_succeeded"
    ELSE IF returned.res.status = "approval_required" THEN "approval_requested"
    ELSE IF /\ ReturnedFromPolicy
            /\ returned.tool_run_id \in DOMAIN store.tool_runs
            /\ ReturnedDecision.decision = "deny" THEN "policy_violation"
    ELSE "tool_failed"

EventsOfRequest(request_id) ==
    { i \in DOMAIN store.events : store.events[i].request_id = request_id }

\* C36: when a run_tool call has returned an envelope, the committed event log
\* holds exactly two events of the call: first its tool_called event, then one
\* outcome event of the type that matches the outcome (tool_succeeded for ok,
\* policy_violation for a policy deny, approval_requested for
\* approval_required, tool_failed for every other failure).
C36_EventSequence ==
    (returned.op = "run_tool" /\ returned.res.status # "raised")
        => \E i, j \in EventsOfRequest(returned.res.request_id) :
              /\ i < j
              /\ EventsOfRequest(returned.res.request_id) = {i, j}
              /\ store.events[i].event_type = "tool_called"
              /\ store.events[j].event_type = ExpectedOutcomeEvent

\* run_approved has returned from one of its gates (lines 518-563)
GateFailure(res) ==
    /\ res.status = "error"
    /\ res.tool_name = ApprovalResolve
    /\ <<res.error.code, res.error.message>> \in
          { <<"NOT_FOUND", "Approval not found">>,
            <<"POLICY_VIOLATION", "Approval is not pending">>,
            <<"NOT_FOUND", "Tool run for approval not found">>,
            <<"INTERNAL_ERROR", "Malformed approval context (missing tool_name)">> }

\* C37: gate failures of run_approved change nothing. On the step in which
\* run_approved returns from a gate (approval missing, approval not pending,
\* ToolRun missing, context without tool_name) the committed store is left as
\* it was (no Approval row, ToolRun row or event written, the approval's status
\* kept, so an approval with a malformed context stays pending) and no handler
\* is invoked; and run_approved returns an approval.resolve envelope only from
\* those four gates.
C37_GateFailureFrame ==
    [][(/\ returned' # returned
        /\ returned'.op = "run_approved"
        /\ returned'.res.status # "raised"
        /\ returned'.res.tool_name = ApprovalResolve)
          => /\ GateFailure(returned'.res)
             /\ store' = store
             /\ handler_log' = handler_log
             /\ (returned'.res.error.code = "INTERNAL_ERROR"
                    => store'.approvals[returned'.approval_id].status = "pending")]_vars

C37_Witness ==
    /\ returned.op = "run_approved"
    /\ returned.res.status = "error"
    /\ returned.res.tool_name = ApprovalResolve
    /\ returned.res.error.code = "INTERNAL_ERROR"
    /\ returned.approval_id \in DOMAIN store.approvals
    /\ store.approvals[returned.approval_id].status = "pending"
    /\ store.approvals[returned.approval_id].approval_context_json.tool_name = Absent

ApprovalsOf(db, tool_run_id) ==
    { a \in DOMAIN db.approvals : db.approvals[a].tool_run_id = tool_run_id }

\* the step is run_tool returning approval_required for the ToolRun and
\* Approval it names
ApprovalRequested(tool_run_id, approval_id) ==
    /\ returned' # returned
    /\ returned'.op = "run_tool"
    /\ returned'.res.status = "approval_required"
    /\ returned'.tool_run_id = tool_run_id
    /\ returned'.approval_id = approval_id

\* the step is run_tool creating the ToolRun (the call goes on to the handler
\* or returns in the same step)
ToolRunStarted(tool_run_id) ==
    \/ \E p \in Procs : /\ call'[p].op = "run_tool"
                        /\ call[p].op = "none"
                        /\ call'[p].tool_run_id = tool_run_id
    \/ /\ returned' # returned
       /\ returned'.op = "run_tool"
       /\ returned'.tool_run_id = tool_run_id

RaisingOutcomes == { x \in HandlerOutcomes : x.kind \in {"ToolError", "Exception"} }

\* the envelope of a handler that raised after the deadline: error with the
\* ToolError's code or INTERNAL_ERROR, and not timeout
LateFailure(outcome, res) ==
    /\ res.status = "error"
    /\ res.error.code = (IF outcome.kind = "ToolError" THEN outcome.code ELSE "INTERNAL_ERROR")
    /\ res.error.message \in HandlerFailureMessages

\* the envelope of a handler that returned after the deadline: timeout/TIMEOUT,
\* with no output in it
LateReturn(res, elapsed_ms) ==
    /\ res.status = "timeout"
    /\ res.error.code = "TIMEOUT"
    /\ res.error.details = [kind |-> "elapsed", elapsed_ms |-> elapsed_ms]
    /\ res.data = Empty

\* C39: outcome precedence after execution. Whenever a handler is being
\* invoked by run_tool or run_approved and the elapsed time exceeds the call's
\* timeout_ms: if the handler raises, the call's outcome is error with the
\* ToolError's code or INTERNAL_ERROR; if it returns, the outcome is
\* timeout/TIMEOUT whatever the output is and whether or not the output schema
\* loads (the output is not validated), also when validate_output is set and
\* the tool has an output schema.
C39_OutcomePrecedence ==
    \A p \in Procs :
        \A elapsed_ms \in ElapsedProbes, load \in LoadOutcomes :
            (pc[p] \in {"rt_exec", "ra_exec"} /\ elapsed_ms > call[p].timeout_ms)
                => /\ \A outcome \in RaisingOutcomes :
                        IF pc[p] = "rt_exec"
                        THEN LateFailure(outcome,
                                 run_tool_outcome(call[p], outcome, elapsed_ms, load).res)
                        ELSE /\ ~run_approved_outcome(call[p], outcome, elapsed_ms, load).raised
                             /\ LateFailure(outcome,
                                    run_approved_outcome(call[p], outcome, elapsed_ms, load).res)
                   /\ \A outcome \in NormalReturns :
                        IF pc[p] = "rt_exec"
                        THEN LateReturn(run_tool_outcome(call[p], outcome, elapsed_ms, load).res,
                                        elapsed_ms)
                        ELSE /\ ~run_approved_outcome(call[p], outcome, elapsed_ms, load).raised
                             /\ LateReturn(
                                    run_approved_outcome(call[p], outcome, elapsed_ms, load).res,
                                    elapsed_ms)

\* a call on a tool with an output schema, with validate_output set, has
\* returned timeout: its handler returned after the deadline
C39_Witness ==
    /\ returned.op \in {"run_tool", "run_approved"}
    /\ returned.res.status = "timeout"
    /\ returned.ctx # Idle
    /\ returned.ctx.validate_output
    /\ registry_get(returned.ctx.tool_name).output_schema
    /\ returned.res.error.details.elapsed_ms > returned.ctx.timeout_ms
    /\ HandlerRanFor(returned.res.request_id)

\* the deadline the claim gives a timeout_ms argument: the argument when it is
\* a positive integer, 10000 when it is omitted or 0
ClaimedDeadline(timeout_arg) ==
    IF timeout_arg.t = "int" /\ timeout_arg.v > 0 THEN timeout_arg.v ELSE 10000

\* C40: the effective deadline of run_tool and run_approved is the caller's
\* timeout_ms when that is a positive integer and 10000 (the gateway's
\* default_timeout_ms) when it is omitted or 0. A handler that returns gives
\* timeout exactly when the elapsed time exceeds that deadline, an ok envelope
\* carries that deadline in meta.timeout_ms, and with timeout_ms = 0 a call
\* whose elapsed time is at most 10000 ms does not end in timeout.
C40_EffectiveDeadline ==
    /\ dl.phase \in {"executing", "finished"}
          => dl.c.timeout_ms = ClaimedDeadline(dl.timeout_arg)
    /\ (dl.phase = "finished" /\ ~dl.o.raised)
          => /\ dl.outcome.kind = "return"
                   => (dl.o.res.status = "timeout"
                          <=> dl.elapsed_ms > ClaimedDeadline(dl.timeout_arg))
             /\ dl.o.res.status = "ok"
                   => dl.o.res.meta.timeout_ms = ClaimedDeadline(dl.timeout_arg)
             /\ (dl.timeout_arg = IntV(0) /\ dl.elapsed_ms <= 10000)
                   => dl.o.res.status # "timeout"

\* a call made with timeout_ms = 0 whose handler took a second has returned ok
C40_Witness ==
    /\ dl.phase = "finished"
    /\ dl.timeout_arg = IntV(0)
    /\ dl.elapsed_ms = 5000
    /\ ~dl.o.raised
    /\ dl.o.res.status = "ok"
    /\ dl.o.res.meta.timeout_ms = 10000

====
